---------------------------- MODULE Spec2Model ----------------------------
(***************************************************************************)
(* Model of the Socratic Reader content script and its shared libraries:   *)
(* text anchoring (shared/anchoring.ts), offset-to-range mapping and the   *)
(* analysis flow (content.ts), and analysis-response validation            *)
(* (shared/llm.ts).                                                        *)
(*                                                                         *)
(* Strings are sequences of one-character strings.  A document is the      *)
(* sequence of its DOM text nodes in tree order; a DOM Range is a pair of  *)
(* boundary points (node index, offset in the node).                       *)
(***************************************************************************)
EXTENDS Integers, Sequences, FiniteSets, TLC

VARIABLES
    \* ---- the page ----
    doc,                \* text nodes under document.body: [text, hidden]
    edits,              \* edits of the page since it was last read
    \* ---- anchoring (shared/anchoring.ts) ----
    rootFirst,          \* the anchoring root holds the nodes rootFirst..Len(doc)
    fragmentDirective,  \* 'fragmentDirective' in document
    liveRange,          \* the range last described (NoRange before)
    descriptor,         \* the TextAnchor under test (NoAnchor before)
    anchorResult,       \* outcome of anchor(descriptor, root)
    aPc,                \* "idle" | "start" | "described" | "anchored"
    \* ---- offset mapping (content.ts) ----
    chunk,              \* the TextChunk extracted from the page
    otrArgs,            \* <<start, end>> last given to offsetToRange
    otrResult,          \* what offsetToRange returned
    oPc,                \* "idle" | "start" | "extracted" | "mapped"
    \* ---- response validation (shared/llm.ts) ----
    response,           \* the provider's response handed to parseResponse
    parseResult,        \* what parseResponse returned or threw
    pPc,                \* "idle" | "start" | "parsed"
    \* ---- analysis flow (content.ts) ----
    page,               \* the texts of the chunks chunkText cuts the page into
    overlayVisible,     \* the overlay element has the class 'visible'
    overlayState,       \* 'IDLE' | 'EXTRACTING' | 'ANALYZING' | 'DISPLAYING' | 'ERROR'
    currentHighlights,  \* the ProcessedHighlights of the sidebar
    currentHighlightIndex,
    isFromCache,
    nextHighlightId,
    domMarks,           \* the highlight spans in the document, in insertion order
    cache,              \* the highlights cached for this URL and text
    runs,               \* the invocations of startAnalysis and where each stands
    \* the chat on one highlight
    chatSession,        \* chatSessions.get(highlightId), NoSession before openChatPanel
    chatReply,          \* what the chat model answered to the last message
    chatPc,             \* "idle", or "awaiting" inside sendChatMessage
    \* semantic chunking of one text
    semText,            \* the text
    semParams,          \* targetWordCount, minWordCount, maxWordCount
    semSentences,       \* what detectSentences returned
    semChunks,          \* what createSemanticChunks returned
    sPc,
    \* one call of deduplicateByText
    dedupInput,         \* the highlights given
    dedupOutput,        \* the highlights returned
    dPc,
    \* chrome.storage and one call in flight (shared/storage.ts)
    syncStore,          \* chrome.storage.sync: key -> value
    localStore,         \* chrome.storage.local: key -> value
    now,                \* Date.now()
    storageCall,        \* the call in flight and what it has read
    storageResult,      \* what the last call returned
    stPc,
    \* one call of expandToSentence
    expandText,         \* the chunk's text
    expandArgs,         \* <<start, end>> of the highlight
    expandResult,       \* what expandToSentence returned
    ePc,
    \* the chat panel (content.ts)
    chatSessions,           \* the Map highlightId -> ChatSession
    activeChatHighlightId,
    chatModalElement,       \* the chat modal, NoModal for null
    chatPending,            \* per session, the SOCRATIC_CHAT messages not answered yet
    chatEvent,              \* the function that ran last, and its highlightId
    \* user-created highlights (content.ts)
    userPending,            \* the ids whose GENERATE_QUESTIONS message is not answered yet
    \* one call of callLLM (shared/llm.ts)
    callConfig,             \* provider and apiKey of the Config
    callAttempts,           \* what each fetch of the call met, in order
    callResult,             \* what callLLM returned or threw
    cPc                     \* "idle" | "start" | "fetch" | "wait" | "done"

pageVars == <<doc, edits>>
anchorVars == <<rootFirst, fragmentDirective, liveRange, descriptor, anchorResult, aPc>>
offsetVars == <<chunk, otrArgs, otrResult, oPc>>
llmVars == <<response, parseResult, pPc>>
analysisVars == <<page, overlayVisible, overlayState, currentHighlights,
                  currentHighlightIndex, isFromCache, nextHighlightId, domMarks,
                  cache, runs>>

chatVars == <<chatSession, chatReply, chatPc>>
semVars == <<semText, semParams, semSentences, semChunks, sPc>>
dedupVars == <<dedupInput, dedupOutput, dPc>>
storageVars == <<syncStore, localStore, now, storageCall, storageResult, stPc>>
expandVars == <<expandText, expandArgs, expandResult, ePc>>
panelVars == <<chatSessions, activeChatHighlightId, chatModalElement, chatPending, chatEvent>>
sidebarVars == <<userPending>>
callVars == <<callConfig, callAttempts, callResult, cPc>>
exceptPanel == <<expandVars, sidebarVars, callVars>>
exceptExpand == <<panelVars, sidebarVars, callVars>>
exceptCall == <<expandVars, panelVars, sidebarVars>>
moreVars == <<expandVars, panelVars, sidebarVars, callVars>>
restVars == <<chatVars, semVars, dedupVars, storageVars, moreVars>>
coreVars == <<pageVars, anchorVars, offsetVars, llmVars, analysisVars>>
exceptChat == <<coreVars, semVars, dedupVars, storageVars, moreVars>>
exceptSem == <<coreVars, chatVars, dedupVars, storageVars, moreVars>>
exceptDedup == <<coreVars, chatVars, semVars, storageVars, moreVars>>
exceptStorage == <<coreVars, chatVars, semVars, dedupVars, moreVars>>

vars == <<pageVars, anchorVars, offsetVars, llmVars, analysisVars, restVars>>

-----------------------------------------------------------------------------
(* Bounds of the model *)

MaxNodes == 3
MaxNodeLen == 2
MaxEdits == 1
MaxRootSkip == 1
MaxOvershoot == 1
MaxHighlights == 2
MaxOffset == 2
MaxChunks == 2
MaxRuns == 2
MaxIds == 3

Chars == {"a", " "}

-----------------------------------------------------------------------------
(* Strings *)

Min(a, b) == IF a < b THEN a ELSE b
Max(a, b) == IF a > b THEN a ELSE b

StringsUpTo(n) == UNION {[1..k -> Chars] : k \in 0..n}

\* String.prototype.slice(from, to) for from, to >= 0
Slice(s, from, to) ==
    LET b == Min(to, Len(s)) IN
    IF from >= b THEN <<>> ELSE SubSeq(s, from + 1, b)

\* String.prototype.slice(-n)
SliceLast(s, n) == IF n >= Len(s) THEN s ELSE SubSeq(s, Len(s) - n + 1, Len(s))

RECURSIVE Concat(_)
Concat(ss) == IF ss = <<>> THEN <<>> ELSE Head(ss) \o Concat(Tail(ss))

\* the characters of the class \s that the model uses
Whitespace == {" ", "\t", "\n", "\r"}

IsSpace(c) == c \in Whitespace

RECURSIVE TrimLeft(_)
TrimLeft(s) == IF s # <<>> /\ IsSpace(Head(s)) THEN TrimLeft(Tail(s)) ELSE s

RECURSIVE TrimRight(_)
TrimRight(s) ==
    IF s # <<>> /\ IsSpace(s[Len(s)]) THEN TrimRight(SubSeq(s, 1, Len(s) - 1)) ELSE s

\* String.prototype.trim()
Trim(s) == TrimRight(TrimLeft(s))

StartsWith(s, p) == Len(p) <= Len(s) /\ SubSeq(s, 1, Len(p)) = p
EndsWith(s, p) == Len(p) <= Len(s) /\ SubSeq(s, Len(s) - Len(p) + 1, Len(s)) = p

\* String.prototype.indexOf(pat, from): 0-based, -1 when absent; an empty
\* pattern is found at min(from, length)
IndexOf(s, pat, from) ==
    LET hits == {i \in from..(Len(s) - Len(pat)) : SubSeq(s, i + 1, i + Len(pat)) = pat}
    IN IF pat = <<>> THEN Min(from, Len(s))
       ELSE IF hits = {} THEN -1
       ELSE CHOOSE i \in hits : \A j \in hits : i <= j


-----------------------------------------------------------------------------
(* The document: text nodes and ranges *)

NoRange == [sn |-> 0, so |-> 0, en |-> 0, eo |-> 0]

TextNode(t, h) == [text |-> t, hidden |-> h]

\* Range.prototype.toString(): the data of every Text node inside the range,
\* whatever its styling
RangeToString(d, r) ==
    IF r.sn = r.en THEN Slice(d[r.sn].text, r.so, r.eo)
    ELSE Slice(d[r.sn].text, r.so, Len(d[r.sn].text))
         \o Concat([k \in 1..(r.en - r.sn - 1) |-> d[r.sn + k].text])
         \o Slice(d[r.en].text, 0, r.eo)

\* the acceptNode filter of the tree walker
AcceptNode(n) == ~n.hidden /\ Trim(n.text) # <<>>

\* the indices, in document order, of the text nodes the walker accepts under
\* the root whose first text node is `first`
getTextNodesInRange(d, first) ==
    SelectSeq([i \in 1..Len(d) |-> i], LAMBDA i : i >= first /\ AcceptNode(d[i]))

\* textNodes.map(n => n.textContent).join('')
JoinText(d, nodes) == Concat([k \in 1..Len(nodes) |-> d[nodes[k]].text])

RECURSIVE OffsetLoop(_, _, _, _, _, _)
OffsetLoop(d, node, offset, nodes, k, currentOffset) ==
    IF k > Len(nodes) THEN currentOffset
    ELSE IF nodes[k] = node THEN currentOffset + offset
    ELSE OffsetLoop(d, node, offset, nodes, k + 1, currentOffset + Len(d[nodes[k]].text))

getTextOffset(d, node, offset, first) ==
    OffsetLoop(d, node, offset, getTextNodesInRange(d, first), 1, 0)

\* range.setStart / range.setEnd: an offset outside the node throws (caught:
\* null); an end before the start collapses the range onto the end
SetRange(d, sn, so, en, eo) ==
    IF so < 0 \/ so > Len(d[sn].text) \/ eo < 0 \/ eo > Len(d[en].text) THEN NoRange
    ELSE IF en < sn \/ (en = sn /\ eo < so)
         THEN [sn |-> en, so |-> eo, en |-> en, eo |-> eo]
         ELSE [sn |-> sn, so |-> so, en |-> en, eo |-> eo]

RECURSIVE RangeLoop(_, _, _, _, _, _, _, _)
RangeLoop(d, start, end, nodes, k, currentOffset, startNode, startOffset) ==
    IF k > Len(nodes) THEN NoRange
    ELSE LET nodeLength == Len(d[nodes[k]].text)
             found == startNode = 0 /\ currentOffset + nodeLength > start
             sn == IF found THEN nodes[k] ELSE startNode
             so == IF found THEN start - currentOffset ELSE startOffset
         IN IF currentOffset + nodeLength >= end
            THEN IF sn = 0 THEN NoRange
                 ELSE SetRange(d, sn, so, nodes[k], end - currentOffset)
            ELSE RangeLoop(d, start, end, nodes, k + 1, currentOffset + nodeLength, sn, so)

createRangeFromOffset(d, start, end, nodes) ==
    RangeLoop(d, start, end, nodes, 1, 0, 0, 0)

-----------------------------------------------------------------------------
(* Similarity *)

\* the inner loop over j of one row i; costs is the rolling array (costs[j]
\* of the code is costs[j + 1] here)
RECURSIVE LevRow(_, _, _, _, _, _)
LevRow(s1, s2, costs, i, j, lastValue) ==
    IF j > Len(s1) THEN [costs EXCEPT ![Len(s1) + 1] = lastValue]
    ELSE LET diag == costs[j]
             newValue == IF s1[j] # s2[i]
                         THEN Min(Min(diag, lastValue), costs[j + 1]) + 1
                         ELSE diag
         IN LevRow(s1, s2, [costs EXCEPT ![j] = lastValue], i, j + 1, newValue)

RECURSIVE LevRows(_, _, _, _)
LevRows(s1, s2, costs, i) ==
    IF i > Len(s2) THEN costs[Len(s1) + 1]
    ELSE LevRows(s1, s2, LevRow(s1, s2, costs, i, 1, i), i + 1)

levenshtein(s1, s2) == LevRows(s1, s2, [j \in 1..(Len(s1) + 1) |-> j - 1], 1)

\* a ratio as <<numerator, denominator>>
similarity(s1, s2) ==
    LET longer == IF Len(s1) > Len(s2) THEN s1 ELSE s2
        shorter == IF Len(s1) > Len(s2) THEN s2 ELSE s1
    IN IF Len(longer) = 0 THEN <<1, 1>>
       ELSE <<Len(longer) - levenshtein(longer, shorter), Len(longer)>>

RatioGt(x, y) == x[1] * y[2] > y[1] * x[2]
RatioGe(x, y) == x[1] * y[2] >= y[1] * x[2]
RatioEq(x, y) == x[1] * y[2] = y[1] * x[2]

-----------------------------------------------------------------------------
(* shared/anchoring.ts *)

CONTEXT_LENGTH == 32
\* FUZZY_THRESHOLD = 0.8, as the ratio 8 / 10
FUZZY_THRESHOLD == <<8, 10>>
\* the context score a fuzzy candidate must exceed, 0.7
CONTEXT_THRESHOLD == <<7, 10>>
\* the flex of the fuzzy search window, in characters
SEARCH_FLEX == 50
\* the exact-text length above which a text fragment quotes only both ends
FRAGMENT_LONG == 80
FRAGMENT_PART == 40
ABBREVIATION_WINDOW == 10

NoHint == <<>>

TextAnchor(exact, prefix, suffix, start, end, hint) ==
    [exact |-> exact, prefix |-> prefix, suffix |-> suffix,
     start |-> start, end |-> end, textFragment |-> hint]

NoAnchor == TextAnchor(<<>>, <<>>, <<>>, 0, 0, NoHint)

\* encodeURIComponent of one character of the model's alphabet
EncodeChar(c) == IF c = " " THEN <<"%", "2", "0">> ELSE <<c>>

\* encode = (s) => encodeURIComponent(s.trim())
Encode(s) == LET t == Trim(s) IN Concat([k \in 1..Len(t) |-> EncodeChar(t[k])])

FragmentHead == <<":", "~", ":", "t", "e", "x", "t", "=">>

createTextFragmentUrl(exact, prefix, suffix) ==
    FragmentHead
    \o (IF prefix # <<>> THEN Encode(prefix) \o <<"-", ",">> ELSE <<>>)
    \o (IF Len(exact) > FRAGMENT_LONG
        THEN Encode(Slice(exact, 0, FRAGMENT_PART)) \o <<",">>
             \o Encode(SliceLast(exact, FRAGMENT_PART))
        ELSE Encode(exact))
    \o (IF suffix # <<>> THEN <<",", "-">> \o Encode(suffix) ELSE <<>>)

\* the 0-based index of the first c at or after p, Len(f) when there is none
RunEnd(f, p, c) ==
    LET hits == {i \in p..(Len(f) - 1) : f[i + 1] = c}
    IN IF hits = {} THEN Len(f) ELSE CHOOSE i \in hits : \A j \in hits : i <= j

\* the match of /(?:([^-]*)-,)?([^,]+)(?:,([^,]+))?(?:,-(.+))?/ at 0-based
\* index p of f, the place after the literal ':~:text='
MatchFragmentAt(f, p) ==
    LET r == RunEnd(f, p, "-")
        withPrefix == /\ Slice(f, r, r + 2) = <<"-", ",">>
                      /\ r + 2 < Len(f)
                      /\ f[r + 3] # ","
        q == IF withPrefix THEN r + 2 ELSE p
        e1 == RunEnd(f, q, ",")
        withEnd == e1 + 1 < Len(f) /\ f[e1 + 2] # ","
        e2 == IF withEnd THEN RunEnd(f, e1 + 1, ",") ELSE e1
        withSuffix == Slice(f, e2, e2 + 2) = <<",", "-">> /\ e2 + 2 < Len(f)
    IN [match |-> q < Len(f) /\ f[q + 1] # ",",
        prefix |-> IF withPrefix THEN Slice(f, p, r) ELSE <<>>,
        textStart |-> Slice(f, q, e1),
        textEnd |-> IF withEnd THEN Slice(f, e1 + 1, e2) ELSE <<>>,
        suffix |-> IF withSuffix THEN Slice(f, e2 + 2, Len(f)) ELSE <<>>]

\* fragment.match(...): the leftmost place where the pattern matches
RECURSIVE MatchFragmentFrom(_, _)
MatchFragmentFrom(f, from) ==
    LET at == IndexOf(f, FragmentHead, from) IN
    IF at = -1 THEN [match |-> FALSE, prefix |-> <<>>, textStart |-> <<>>,
                     textEnd |-> <<>>, suffix |-> <<>>]
    ELSE LET m == MatchFragmentAt(f, at + Len(FragmentHead)) IN
         IF m.match THEN m ELSE MatchFragmentFrom(f, at + 1)

Hang == <<-1>>

\* the while loop collecting the occurrences of exact; it does not end when
\* indexOf keeps returning the same index
RECURSIVE OccurrenceLoop(_, _, _, _)
OccurrenceLoop(fullText, exact, index, occurrences) ==
    IF index = -1 THEN occurrences
    ELSE LET next == IndexOf(fullText, exact, index + 1) IN
         IF next = index THEN Hang
         ELSE OccurrenceLoop(fullText, exact, next, Append(occurrences, index))

Occurrences(fullText, exact) ==
    OccurrenceLoop(fullText, exact, IndexOf(fullText, exact, 0), <<>>)

ContextMatches(fullText, exact, prefix, suffix, start) ==
    LET actualPrefix == Slice(fullText, Max(0, start - CONTEXT_LENGTH), start)
        actualSuffix == Slice(fullText, start + Len(exact),
                              start + Len(exact) + CONTEXT_LENGTH)
    IN EndsWith(actualPrefix, prefix) /\ StartsWith(actualSuffix, suffix)

\* findQuote without the context check: always the first occurrence
ChosenOccurrenceFirst(fullText, exact, prefix, suffix, occurrences) == occurrences[1]

\* the occurrence findQuote settles on, given at least one
ChosenOccurrence(fullText, exact, prefix, suffix, occurrences) ==
    LET good == {k \in 1..Len(occurrences) :
                    ContextMatches(fullText, exact, prefix, suffix, occurrences[k])}
    IN IF Len(occurrences) = 1 \/ good = {} THEN occurrences[1]
       ELSE occurrences[CHOOSE k \in good : \A j \in good : k <= j]

\* [kind |-> "range" | "null" | "hang", range]
findQuote(d, desc, first) ==
    LET textNodes == getTextNodesInRange(d, first)
        fullText == JoinText(d, textNodes)
        occurrences == Occurrences(fullText, desc.exact)
    IN IF occurrences = Hang THEN [kind |-> "hang", range |-> NoRange]
       ELSE IF Len(occurrences) = 0 THEN [kind |-> "null", range |-> NoRange]
       ELSE LET start == ChosenOccurrence(fullText, desc.exact, desc.prefix,
                                          desc.suffix, occurrences)
                range == createRangeFromOffset(d, start, start + Len(desc.exact), textNodes)
            IN [kind |-> IF range = NoRange THEN "null" ELSE "range", range |-> range]

findByTextFragment(d, fragment, first) ==
    LET m == MatchFragmentFrom(fragment, 0) IN
    IF ~m.match THEN [kind |-> "null", range |-> NoRange]
    ELSE findQuote(d, TextAnchor(m.textStart \o m.textEnd, m.prefix, m.suffix, 0, 0, NoHint),
                   first)

NoMatch == [found |-> FALSE, start |-> 0, score |-> <<0, 1>>, text |-> <<>>]

\* window i of the sliding loop of findFuzzyQuote: its text, its score, and
\* whether it passes the threshold and the context check
ContextScoreOk(fullText, exact, prefix, suffix, i) ==
    LET searchLength == Len(exact)
        actualPrefix == Slice(fullText, Max(0, i - CONTEXT_LENGTH), i)
        actualSuffix == Slice(fullText, i + searchLength,
                              i + searchLength + CONTEXT_LENGTH)
        p == similarity(prefix, actualPrefix)
        s == similarity(suffix, actualSuffix)
    \* (p + s) / 2 > 0.7
    IN (p[1] * s[2] + s[1] * p[2]) * CONTEXT_THRESHOLD[2]
         > 2 * p[2] * s[2] * CONTEXT_THRESHOLD[1]

FuzzyWindow(fullText, exact, prefix, suffix, i) ==
    LET text == Slice(fullText, i, i + Len(exact))
        score == similarity(exact, text)
    IN [ok |-> RatioGt(score, FUZZY_THRESHOLD)
                 /\ ContextScoreOk(fullText, exact, prefix, suffix, i),
        start |-> i, score |-> score, text |-> text]

\* what the loop leaves in bestMatch: a window replaces bestMatch only when it
\* passes and scores strictly higher, so the loop ends with the first of the
\* passing windows of highest score
FuzzyLoop(fullText, exact, prefix, suffix) ==
    LET last == Len(fullText) - Len(exact) + SEARCH_FLEX - 1
        passing == {w \in {FuzzyWindow(fullText, exact, prefix, suffix, i) : i \in 0..last} :
                       w.ok}
        best == CHOOSE w \in passing : \A v \in passing :
                    \/ RatioGt(w.score, v.score)
                    \/ (RatioEq(w.score, v.score) /\ w.start <= v.start)
    IN IF passing = {} THEN NoMatch
       ELSE [found |-> TRUE, start |-> best.start, score |-> best.score,
             text |-> best.text]

\* [kind |-> "match" | "null", range, exact, score]
findFuzzyQuote(d, desc, first) ==
    LET textNodes == getTextNodesInRange(d, first)
        fullText == JoinText(d, textNodes)
        bestMatch == FuzzyLoop(fullText, desc.exact, desc.prefix, desc.suffix)
        range == createRangeFromOffset(d, bestMatch.start,
                                       bestMatch.start + Len(desc.exact), textNodes)
    IN IF ~bestMatch.found \/ range = NoRange
       THEN [kind |-> "null", range |-> NoRange, exact |-> <<>>, score |-> <<0, 1>>]
       ELSE [kind |-> "match", range |-> range, exact |-> bestMatch.text,
             score |-> bestMatch.score]

findByPosition(d, desc, first) ==
    LET textNodes == getTextNodesInRange(d, first)
        fullText == JoinText(d, textNodes)
    IN IF desc.start >= Len(fullText) \/ desc.end > Len(fullText) THEN NoRange
       ELSE createRangeFromOffset(d, desc.start, desc.end, textNodes)

AnchorResult(range, exact, score, method) ==
    [kind |-> "result", range |-> range, exact |-> exact, score |-> score,
     method |-> method]

NullResult == [kind |-> "null", range |-> NoRange, exact |-> <<>>,
               score |-> <<0, 1>>, method |-> "none"]
HangResult == [kind |-> "hang", range |-> NoRange, exact |-> <<>>,
               score |-> <<0, 1>>, method |-> "none"]
NoResult == [kind |-> "none", range |-> NoRange, exact |-> <<>>,
             score |-> <<0, 1>>, method |-> "none"]

\* the cascade with the position stage tried before the fuzzy stage
anchorPositionFirst(d, desc, first, hasFragmentDirective) ==
    LET exactMatch == findQuote(d, desc, first)
        tryFragment == desc.textFragment # NoHint /\ hasFragmentDirective
        fragmentMatch == findByTextFragment(d, desc.textFragment, first)
        fuzzyMatch == findFuzzyQuote(d, desc, first)
        positionMatch == findByPosition(d, desc, first)
    IN IF exactMatch.kind = "hang" THEN HangResult
       ELSE IF exactMatch.kind = "range"
       THEN AnchorResult(exactMatch.range, desc.exact, <<1, 1>>, "exact")
       ELSE IF tryFragment /\ fragmentMatch.kind = "range"
       THEN AnchorResult(fragmentMatch.range, RangeToString(d, fragmentMatch.range),
                         <<95, 100>>, "fragment")
       ELSE IF positionMatch # NoRange
       THEN AnchorResult(positionMatch, RangeToString(d, positionMatch), <<1, 2>>, "position")
       ELSE IF fuzzyMatch.kind = "match" /\ RatioGe(fuzzyMatch.score, FUZZY_THRESHOLD)
       THEN AnchorResult(fuzzyMatch.range, fuzzyMatch.exact, fuzzyMatch.score, "fuzzy")
       ELSE NullResult

anchor(d, desc, first, hasFragmentDirective) ==
    LET exactMatch == findQuote(d, desc, first)
        tryFragment == desc.textFragment # NoHint /\ hasFragmentDirective
        fragmentMatch == findByTextFragment(d, desc.textFragment, first)
        fuzzyMatch == findFuzzyQuote(d, desc, first)
        positionMatch == findByPosition(d, desc, first)
    IN IF exactMatch.kind = "hang" THEN HangResult
       ELSE IF exactMatch.kind = "range"
       THEN AnchorResult(exactMatch.range, desc.exact, <<1, 1>>, "exact")
       ELSE IF tryFragment /\ fragmentMatch.kind = "range"
       THEN AnchorResult(fragmentMatch.range, RangeToString(d, fragmentMatch.range),
                         <<95, 100>>, "fragment")
       ELSE IF fuzzyMatch.kind = "match" /\ RatioGe(fuzzyMatch.score, FUZZY_THRESHOLD)
       THEN AnchorResult(fuzzyMatch.range, fuzzyMatch.exact, fuzzyMatch.score, "fuzzy")
       ELSE IF positionMatch # NoRange
       THEN AnchorResult(positionMatch, RangeToString(d, positionMatch), <<1, 2>>, "position")
       ELSE NullResult

\* getContext reads document.body, whatever root describeRange was given
getContext(d, range, contextLength) ==
    LET text == JoinText(d, getTextNodesInRange(d, 1))
        rangeStart == getTextOffset(d, range.sn, range.so, 1)
        rangeEnd == getTextOffset(d, range.en, range.eo, 1)
    IN [prefix |-> Slice(text, Max(0, rangeStart - contextLength), rangeStart),
        suffix |-> Slice(text, rangeEnd, rangeEnd + contextLength)]

getTextPosition(d, range, first) ==
    [start |-> getTextOffset(d, range.sn, range.so, first),
     end |-> getTextOffset(d, range.en, range.eo, first)]

describeRange(d, range, first) ==
    LET exact == RangeToString(d, range)
        ctx == getContext(d, range, CONTEXT_LENGTH)
        pos == getTextPosition(d, range, first)
    IN TextAnchor(exact, ctx.prefix, ctx.suffix, pos.start, pos.end,
                  createTextFragmentUrl(exact, ctx.prefix, ctx.suffix))

-----------------------------------------------------------------------------
(* Anchoring: a range of the page is described, the page may change, and the
   descriptor is anchored again *)

\* every text node holds MaxNodeLen characters; a node of spaces only is the
\* whitespace between two elements
NodeTexts == [1..MaxNodeLen -> Chars]

Docs == UNION {[1..n -> {TextNode(t, FALSE) : t \in NodeTexts}] : n \in 1..MaxNodes}

\* the boundary points inside the root, and the ranges between them
Points(d, first) == {<<n, o>> \in (first..Len(d)) \X (0..MaxNodeLen) : o <= Len(d[n].text)}

Ranges(d, first) ==
    {[sn |-> p[1], so |-> p[2], en |-> q[1], eo |-> q[2]] :
        <<p, q>> \in {pq \in Points(d, first) \X Points(d, first) :
                        \/ pq[1][1] < pq[2][1]
                        \/ (pq[1][1] = pq[2][1] /\ pq[1][2] <= pq[2][2])}}

NoChunk == [text |-> <<>>, nodeRanges |-> <<>>]
NoOutcome == [kind |-> "none", range |-> NoRange]

OffsetIdle ==
    /\ chunk = NoChunk
    /\ otrArgs = <<0, 0>>
    /\ otrResult = NoOutcome
    /\ oPc = "idle"

NoResponse == [content |-> "none"]
NoParse == [kind |-> "none"]

LlmIdle ==
    /\ response = NoResponse
    /\ parseResult = NoParse
    /\ pPc = "idle"

NoCache == <<>>

NoSession == [aporiaScore |-> 0, history |-> <<>>]
NoReply == [kind |-> "none"]

ChatIdle ==
    /\ chatSession = NoSession
    /\ chatReply = NoReply
    /\ chatPc = "idle"

NoParams == [targetWordCount |-> 0, minWordCount |-> 0, maxWordCount |-> 0]

SemIdle ==
    /\ semText = <<>>
    /\ semParams = NoParams
    /\ semSentences = <<>>
    /\ semChunks = <<>>
    /\ sPc = "idle"

DedupIdle ==
    /\ dedupInput = <<>>
    /\ dedupOutput = <<>>
    /\ dPc = "idle"

NoCall == [op |-> "none"]

StorageIdle ==
    /\ syncStore = <<>>
    /\ localStore = <<>>
    /\ now = 0
    /\ storageCall = NoCall
    /\ storageResult = NoCall
    /\ stPc = "idle"

ExpandIdle ==
    /\ expandText = <<>>
    /\ expandArgs = <<0, 0>>
    /\ expandResult = [start |-> 0, end |-> 0]
    /\ ePc = "idle"

NoModal == [kind |-> "null"]
NoEvent == [op |-> "none", highlightId |-> ""]

PanelIdle ==
    /\ chatSessions = <<>>
    /\ activeChatHighlightId = ""
    /\ chatModalElement = NoModal
    /\ chatPending = <<>>
    /\ chatEvent = NoEvent

SidebarIdle == userPending = {}

NoConfig == [provider |-> "none", apiKey |-> FALSE]
NoCallResult == [kind |-> "none"]

CallIdle ==
    /\ callConfig = NoConfig
    /\ callAttempts = <<>>
    /\ callResult = NoCallResult
    /\ cPc = "idle"

MoreIdle == ExpandIdle /\ PanelIdle /\ SidebarIdle /\ CallIdle

RestIdle == ChatIdle /\ SemIdle /\ DedupIdle /\ StorageIdle /\ MoreIdle

AnalysisIdle ==
    /\ page = <<>>
    /\ overlayVisible = FALSE
    /\ overlayState = "IDLE"
    /\ currentHighlights = <<>>
    /\ currentHighlightIndex = 0
    /\ isFromCache = FALSE
    /\ nextHighlightId = 0
    /\ domMarks = <<>>
    /\ cache = NoCache
    /\ runs = <<>>

AnchorInit ==
    /\ doc \in Docs
    /\ rootFirst \in 1..Min(Len(doc), 1 + MaxRootSkip)
    /\ fragmentDirective = FALSE
    /\ liveRange = NoRange
    /\ descriptor = NoAnchor
    /\ edits = 0
    /\ anchorResult = NoResult
    /\ aPc = "start"
    /\ OffsetIdle
    /\ LlmIdle
    /\ AnalysisIdle
    /\ RestIdle

DescribeRange ==
    /\ aPc = "start"
    /\ \E r \in Ranges(doc, rootFirst) :
        /\ liveRange' = r
        /\ descriptor' = describeRange(doc, r, rootFirst)
    /\ aPc' = "described"
    /\ UNCHANGED <<pageVars, rootFirst, fragmentDirective, anchorResult>>
    /\ UNCHANGED <<offsetVars, llmVars, analysisVars, restVars>>

\* the page replaces one character of a text node
ReplaceChar ==
    /\ aPc = "described" \/ oPc = "extracted"
    /\ edits < MaxEdits
    /\ \E n \in 1..Len(doc) : \E k \in 1..Len(doc[n].text) : \E c \in Chars \ {doc[n].text[k]} :
        doc' = [doc EXCEPT ![n].text[k] = c]
    /\ edits' = edits + 1
    /\ UNCHANGED <<anchorVars, offsetVars, llmVars, analysisVars, restVars>>

\* the page hides the element of a text node (display: none)
HideNode ==
    /\ aPc = "described" \/ oPc = "extracted"
    /\ edits < MaxEdits
    /\ \E n \in 1..Len(doc) :
        /\ ~doc[n].hidden
        /\ doc' = [doc EXCEPT ![n].hidden = TRUE]
    /\ edits' = edits + 1
    /\ UNCHANGED <<anchorVars, offsetVars, llmVars, analysisVars, restVars>>

Anchor ==
    /\ aPc = "described"
    /\ \E fd \in BOOLEAN :
        /\ fragmentDirective' = fd
        /\ anchorResult' = anchor(doc, descriptor, rootFirst, fd)
    /\ aPc' = "anchored"
    /\ UNCHANGED <<pageVars, rootFirst, liveRange, descriptor>>
    /\ UNCHANGED <<offsetVars, llmVars, analysisVars, restVars>>

AnchorNext == DescribeRange \/ ReplaceChar \/ HideNode \/ Anchor

SpecAnchor == AnchorInit /\ [][AnchorNext]_vars

-----------------------------------------------------------------------------
(* Properties of anchoring *)

\* the linearized text of root, as every stage recomputes it
LinearText == JoinText(doc, getTextNodesInRange(doc, rootFirst))

\* the walker of getTextNodesInRange visits both ends of the live range
RangeOverText == AcceptNode(doc[liveRange.sn]) /\ AcceptNode(doc[liveRange.en])

Unchanged == edits = 0

\* C1: on the unchanged document, describeRange followed by anchor returns a
\* result of score 1.0 and method 'exact' whose exact is the text of the
\* original range, for every range over the text of root
C1_RoundTrip ==
    (aPc = "anchored" /\ Unchanged /\ RangeOverText
        /\ RangeToString(doc, liveRange) # <<>>)
    => /\ anchorResult.kind = "result"
       /\ anchorResult.score = <<1, 1>>
       /\ anchorResult.method = "exact"
       /\ anchorResult.exact = RangeToString(doc, liveRange)

\* the stages of the cascade, each stated on the page as it is now
ExactOccurs == descriptor.exact # <<>> /\ IndexOf(LinearText, descriptor.exact, 0) # -1

FragmentResolves ==
    /\ fragmentDirective
    /\ descriptor.textFragment # NoHint
    /\ findByTextFragment(doc, descriptor.textFragment, rootFirst).kind = "range"

FuzzyFinds ==
    LET fz == findFuzzyQuote(doc, descriptor, rootFirst) IN
    fz.kind = "match" /\ RatioGe(fz.score, FUZZY_THRESHOLD)

PositionFits == findByPosition(doc, descriptor, rootFirst) # NoRange

\* C2: anchor returns the result of the first stage that succeeds, in the
\* order exact (1.0), native fragment (0.95), fuzzy (its similarity), position
\* (0.5), and null only when every stage failed
C2_CascadeOrder ==
    (aPc = "anchored" /\ descriptor.exact # <<>>)
    => /\ anchorResult.kind \in {"result", "null"}
       /\ ExactOccurs
            => anchorResult.method = "exact" /\ anchorResult.score = <<1, 1>>
       /\ (~ExactOccurs /\ FragmentResolves)
            => anchorResult.method = "fragment" /\ anchorResult.score = <<95, 100>>
       /\ (~ExactOccurs /\ ~FragmentResolves /\ FuzzyFinds)
            => /\ anchorResult.method = "fuzzy"
               /\ anchorResult.score = similarity(descriptor.exact, anchorResult.exact)
       /\ (~ExactOccurs /\ ~FragmentResolves /\ ~FuzzyFinds /\ PositionFits)
            => anchorResult.method = "position" /\ anchorResult.score = <<1, 2>>
       /\ anchorResult.kind = "null"
            <=> (~ExactOccurs /\ ~FragmentResolves /\ ~FuzzyFinds /\ ~PositionFits)

\* the fragment stage was tried and failed, and the fuzzy stage answered
C2_Witness ==
    /\ aPc = "anchored"
    /\ fragmentDirective
    /\ descriptor.textFragment # NoHint
    /\ anchorResult.method = "fuzzy"
    /\ PositionFits

\* the windows the fuzzy stage slides over the text as it is now
WindowStarts == 0..(Len(LinearText) - Len(descriptor.exact) + SEARCH_FLEX - 1)

WindowScore(i) ==
    similarity(descriptor.exact, Slice(LinearText, i, i + Len(descriptor.exact)))

WindowContextOk(i) ==
    ContextScoreOk(LinearText, descriptor.exact, descriptor.prefix, descriptor.suffix, i)

AtThreshold ==
    \E i \in WindowStarts : RatioEq(WindowScore(i), FUZZY_THRESHOLD) /\ WindowContextOk(i)

BelowThreshold ==
    \A i \in WindowStarts : RatioGt(FUZZY_THRESHOLD, WindowScore(i))

\* C3: when the exact and fragment stages fail, a window whose similarity to
\* exact is exactly 0.8 with a context similarity above 0.7 makes the result
\* 'fuzzy', and a best similarity below 0.8 makes it 'position' or null
C3_ThresholdAccepted ==
    (aPc = "anchored" /\ descriptor.exact # <<>> /\ ~ExactOccurs /\ ~FragmentResolves)
    => /\ AtThreshold => anchorResult.method = "fuzzy"
       /\ BelowThreshold => (anchorResult.method = "position" \/ anchorResult.kind = "null")

\* the occurrences of exact in the text, and those whose context matches
OccurrenceSet ==
    {i \in 0..Len(LinearText) :
        Slice(LinearText, i, i + Len(descriptor.exact)) = descriptor.exact}

MatchingSet ==
    {i \in OccurrenceSet :
        /\ EndsWith(Slice(LinearText, 0, i), descriptor.prefix)
        /\ StartsWith(Slice(LinearText, i + Len(descriptor.exact), Len(LinearText)),
                      descriptor.suffix)}

SetMin(S) == CHOOSE x \in S : \A y \in S : x <= y

ExpectedOccurrence ==
    IF MatchingSet # {} THEN SetMin(MatchingSet) ELSE SetMin(OccurrenceSet)

\* C4: when exact occurs more than once, the exact stage returns the first
\* occurrence whose preceding text ends with prefix and whose following text
\* starts with suffix, and the first occurrence when none satisfies both
C4_Disambiguation ==
    (aPc = "anchored" /\ descriptor.exact # <<>> /\ Cardinality(OccurrenceSet) > 1)
    => /\ anchorResult.method = "exact"
       /\ getTextOffset(doc, anchorResult.range.sn, anchorResult.range.so, rootFirst)
            = ExpectedOccurrence
       /\ getTextOffset(doc, anchorResult.range.en, anchorResult.range.eo, rootFirst)
            = ExpectedOccurrence + Len(descriptor.exact)

\* a later occurrence is chosen because the first one has the wrong context
C4_Witness ==
    /\ aPc = "anchored"
    /\ descriptor.exact # <<>>
    /\ Cardinality(OccurrenceSet) > 1
    /\ MatchingSet # {}
    /\ SetMin(MatchingSet) > SetMin(OccurrenceSet)
    /\ anchorResult.method = "exact"
    /\ getTextOffset(doc, anchorResult.range.sn, anchorResult.range.so, rootFirst)
         = SetMin(MatchingSet)

\* C5: the descriptor describeRange produces agrees with the linearized text
\* T of root: T[start..end) is exact, prefix is the up-to-32 characters of T
\* that end at start, and suffix the up-to-32 characters that begin at end
C5_SelfConsistent ==
    (aPc = "described" /\ Unchanged /\ RangeOverText)
    => /\ Slice(LinearText, descriptor.start, descriptor.end) = descriptor.exact
       /\ descriptor.prefix
            = Slice(LinearText, Max(0, descriptor.start - CONTEXT_LENGTH), descriptor.start)
       /\ descriptor.suffix
            = Slice(LinearText, descriptor.end, descriptor.end + CONTEXT_LENGTH)

\* C24: anchor ends for every descriptor and every page, with a result or
\* with null
C24_AnchorReturns ==
    aPc = "anchored" => anchorResult.kind \in {"result", "null"}

-----------------------------------------------------------------------------
(* Text extraction and offset mapping (content.ts) *)

getTextNodes(d) == SelectSeq([i \in 1..Len(d) |-> i], LAMBDA i : AcceptNode(d[i]))

NodeRange(node, start, end, globalOffset) ==
    [node |-> node, start |-> start, end |-> end, globalOffset |-> globalOffset]

RECURSIVE buildNodeRanges(_, _)
buildNodeRanges(d, textNodes) ==
    IF textNodes = <<>> THEN <<>>
    ELSE LET front == buildNodeRanges(d, SubSeq(textNodes, 1, Len(textNodes) - 1))
             node == textNodes[Len(textNodes)]
             globalOffset == IF front = <<>> THEN 0
                             ELSE front[Len(front)].globalOffset + front[Len(front)].end
         IN Append(front, NodeRange(node, 0, Len(d[node].text), globalOffset))

\* the spans of nodeRanges that overlap [startOffset, endOffset), cut to it
RECURSIVE getNodeRangesForOffset(_, _, _, _)
getNodeRangesForOffset(d, nodeRanges, startOffset, endOffset) ==
    IF nodeRanges = <<>> THEN <<>>
    ELSE LET range == Head(nodeRanges)
             rest == getNodeRangesForOffset(d, Tail(nodeRanges), startOffset, endOffset)
             nodeTextLength == Len(d[range.node].text)
             rangeContribution == range.end - range.start
             rangeStart == range.globalOffset
             rangeEnd == range.globalOffset + rangeContribution
             newStart == range.start + Max(0, startOffset - rangeStart)
             newEnd == range.start + Min(rangeContribution, endOffset - rangeStart)
         IN IF rangeEnd > startOffset /\ rangeStart < endOffset
            THEN IF newStart > nodeTextLength \/ newEnd > nodeTextLength THEN rest
                 ELSE <<NodeRange(range.node, newStart, newEnd,
                                  Max(0, rangeStart - startOffset))>> \o rest
            ELSE rest

\* the text the spans of a chunk give on the page as it is now
SpanTexts(d, nodeRanges) ==
    Concat([k \in 1..Len(nodeRanges) |->
              Slice(d[nodeRanges[k].node].text, nodeRanges[k].start, nodeRanges[k].end)])

\* one TextChunk of chunkText: the semantic chunk [chunkStart, chunkEnd) of the
\* extracted text; the whole text is the single chunk of a short text
TextChunkOf(d, chunkStart, chunkEnd) ==
    LET textNodes == getTextNodes(d)
        text == JoinText(d, textNodes)
        nodeRanges == buildNodeRanges(d, textNodes)
    IN IF chunkStart = 0 /\ chunkEnd = Len(text)
       THEN [text |-> text, nodeRanges |-> nodeRanges]
       ELSE [text |-> Slice(text, chunkStart, chunkEnd),
             nodeRanges |-> getNodeRangesForOffset(d, nodeRanges, chunkStart, chunkEnd)]

RECURSIVE SumContributions(_)
SumContributions(nodeRanges) ==
    IF nodeRanges = <<>> THEN 0
    ELSE Head(nodeRanges).end - Head(nodeRanges).start + SumContributions(Tail(nodeRanges))

NullOutcome == [kind |-> "null", range |-> NoRange]
RangeOutcome(r) == IF r = NoRange THEN NullOutcome ELSE [kind |-> "range", range |-> r]

\* the check that the page has not changed under the chunk: always passes
DomUnchangedAlways(d, c) == TRUE

\* the nodes still hold the text the chunk recorded
DomUnchanged(d, c) == SpanTexts(d, c.nodeRanges) = c.text

\* a chunk offset mapped into its node without the start of the span
NodeOffsetFromZero(nodeRange, offset, nodeStart) == offset - nodeStart

\* a chunk offset mapped into the node of the span that holds it
NodeOffset(nodeRange, offset, nodeStart) == nodeRange.start + (offset - nodeStart)

\* the loop over the spans, and what follows it when the end was not found
RECURSIVE OffsetLoopSpans(_, _, _, _, _, _, _, _)
OffsetLoopSpans(d, nodeRanges, start, cappedEnd, k, currentOffset, sn, so) ==
    IF k > Len(nodeRanges)
    THEN IF sn = 0 THEN NullOutcome
         ELSE LET lastRange == nodeRanges[Len(nodeRanges)]
                  nodeLength == Len(d[lastRange.node].text)
              IN IF nodeLength = 0 \/ lastRange.end > nodeLength THEN NullOutcome
                 ELSE RangeOutcome(SetRange(d, sn, so, lastRange.node, lastRange.end))
    ELSE LET nodeRange == nodeRanges[k]
             actualNodeLength == Len(d[nodeRange.node].text)
             nodeStart == currentOffset
             nodeEnd == currentOffset + (nodeRange.end - nodeRange.start)
             startHere == sn = 0 /\ start >= nodeStart /\ start < nodeEnd
             startOffset == NodeOffset(nodeRange, start, nodeStart)
             foundStart == sn # 0 \/ startHere
             endHere == foundStart /\ cappedEnd > nodeStart /\ cappedEnd <= nodeEnd
             endOffset == NodeOffset(nodeRange, cappedEnd, nodeStart)
             sn2 == IF startHere THEN nodeRange.node ELSE sn
             so2 == IF startHere THEN startOffset ELSE so
         IN IF actualNodeLength = 0
               \/ nodeRange.start >= actualNodeLength \/ nodeRange.end > actualNodeLength
            THEN OffsetLoopSpans(d, nodeRanges, start, cappedEnd, k + 1, currentOffset, sn, so)
            ELSE IF startHere /\ startOffset > actualNodeLength THEN NullOutcome
            ELSE IF endHere
            THEN IF endOffset > actualNodeLength THEN NullOutcome
                 ELSE RangeOutcome(SetRange(d, sn2, so2, nodeRange.node, endOffset))
            ELSE OffsetLoopSpans(d, nodeRanges, start, cappedEnd, k + 1, nodeEnd, sn2, so2)

offsetToRange(d, c, start, end) ==
    LET totalLength == SumContributions(c.nodeRanges)
        cappedEnd == Min(end, totalLength)
    IN IF start < 0 \/ end <= start \/ Len(c.nodeRanges) = 0 THEN NullOutcome
       ELSE IF ~DomUnchanged(d, c) THEN NullOutcome
       ELSE IF start >= totalLength THEN NullOutcome
       ELSE OffsetLoopSpans(d, c.nodeRanges, start, cappedEnd, 1, 0, 0, 0)

AnchorIdle ==
    /\ rootFirst = 1
    /\ fragmentDirective = FALSE
    /\ liveRange = NoRange
    /\ descriptor = NoAnchor
    /\ anchorResult = NoResult
    /\ aPc = "idle"

OffsetInit ==
    /\ doc \in Docs
    /\ edits = 0
    /\ AnchorIdle
    /\ chunk = NoChunk
    /\ otrArgs = <<0, 0>>
    /\ otrResult = NoOutcome
    /\ oPc = "start"
    /\ LlmIdle
    /\ AnalysisIdle
    /\ RestIdle

\* the page is read and cut into chunks, of which one is kept; a page with no
\* visible text gives chunkText's chunk of the empty text, which has no spans
ExtractChunk ==
    /\ oPc = "start"
    /\ LET text == JoinText(doc, getTextNodes(doc)) IN
       \E chunkStart \in 0..Len(text) : \E chunkEnd \in chunkStart..Len(text) :
          /\ chunkStart < chunkEnd \/ Len(text) = 0
          /\ chunk' = TextChunkOf(doc, chunkStart, chunkEnd)
    /\ oPc' = "extracted"
    /\ UNCHANGED <<pageVars, anchorVars, otrArgs, otrResult, llmVars, analysisVars, restVars>>

\* offsets come from the model's response: any numbers
OffsetToRange ==
    /\ oPc = "extracted"
    /\ \E start \in -1..Len(chunk.text) : \E end \in -1..(Len(chunk.text) + MaxOvershoot) :
          /\ otrArgs' = <<start, end>>
          /\ otrResult' = offsetToRange(doc, chunk, start, end)
    /\ oPc' = "mapped"
    /\ UNCHANGED <<pageVars, anchorVars, chunk, llmVars, analysisVars, restVars>>

OffsetNext == ExtractChunk \/ ReplaceChar \/ HideNode \/ OffsetToRange

SpecOffset == OffsetInit /\ [][OffsetNext]_vars

-----------------------------------------------------------------------------
(* Properties of offset mapping *)

SpansReproduceText == SpanTexts(doc, chunk.nodeRanges) = chunk.text

BadCall ==
    \/ otrArgs[1] < 0
    \/ otrArgs[2] <= otrArgs[1]
    \/ Len(chunk.nodeRanges) = 0
    \/ ~SpansReproduceText

\* C8: offsetToRange returns null and leaves the document as it is whenever
\* start < 0, end <= start, the chunk has no node spans, or the text re-derived
\* from the spans differs from chunk.text
C8_NullOnBadInput ==
    [][(oPc = "extracted" /\ oPc' = "mapped" /\ BadCall')
         => (otrResult' = NullOutcome /\ doc' = doc)]_vars

\* valid offsets on a chunk whose page has changed under it
C8_Witness ==
    /\ oPc = "mapped"
    /\ edits > 0
    /\ 0 <= otrArgs[1] /\ otrArgs[1] < otrArgs[2] /\ otrArgs[2] <= Len(chunk.text)
    /\ Len(chunk.nodeRanges) > 0
    /\ ~SpansReproduceText
    /\ otrResult = NullOutcome

GoodCall ==
    /\ SpansReproduceText
    /\ 0 <= otrArgs[1] /\ otrArgs[1] < otrArgs[2]
    /\ otrArgs[1] < Len(chunk.text)

ExpectedText == Slice(chunk.text, otrArgs[1], Min(otrArgs[2], Len(chunk.text)))

SpanNodes == {chunk.nodeRanges[k].node : k \in 1..Len(chunk.nodeRanges)}

\* the text of a range, read from the nodes of the set only
RangeTextIn(d, r, nodes) ==
    Concat([k \in 1..(r.en - r.sn + 1) |->
              LET n == r.sn + k - 1 IN
              IF n \notin nodes THEN <<>>
              ELSE Slice(d[n].text, IF n = r.sn THEN r.so ELSE 0,
                         IF n = r.en THEN r.eo ELSE Len(d[n].text))])

\* a text node the extraction skipped lies between the two ends of the range
SkippedNodeInside(r) == \E n \in (r.sn + 1)..(r.en - 1) : n \notin SpanNodes

\* C9 as claimed: for spans that still reproduce chunk.text and offsets with
\* 0 <= start < end and start < len, offsetToRange returns a range whose text
\* is chunk.text[start .. min(end, len))
C9_RangeText ==
    (oPc = "mapped" /\ GoodCall)
    => /\ otrResult.kind = "range"
       /\ RangeToString(doc, otrResult.range) = ExpectedText

\* C9, amended: the range runs from offset start to offset min(end, len) of the
\* chunk, so that the text of the chunk's own nodes inside it is
\* chunk.text[start .. min(end, len)); it is the whole text of the range
\* unless a text node the extraction skipped lies inside the range
C9_SpanText ==
    (oPc = "mapped" /\ GoodCall)
    => /\ otrResult.kind = "range"
       /\ RangeTextIn(doc, otrResult.range, SpanNodes) = ExpectedText
       /\ ~SkippedNodeInside(otrResult.range)
            => RangeToString(doc, otrResult.range) = ExpectedText

\* a range over two nodes of a chunk that starts inside a node, with an end
\* offset past the end of the chunk
C9_Witness ==
    /\ oPc = "mapped"
    /\ GoodCall
    /\ otrArgs[2] > Len(chunk.text)
    /\ chunk.nodeRanges[1].start > 0
    /\ otrResult.kind = "range"
    /\ otrResult.range.sn < otrResult.range.en
    /\ RangeToString(doc, otrResult.range) = ExpectedText

-----------------------------------------------------------------------------
(* Sentences (shared/semantic-chunking.ts) and their use in content.ts *)

UpperChars == {"A", "B", "C", "D", "E", "F", "G", "H", "I", "J", "K", "L", "M",
               "N", "O", "P", "Q", "R", "S", "T", "U", "V", "W", "X", "Y", "Z"}
LowerChars == {"a", "b", "c", "d", "e", "f", "g", "h", "i", "j", "k", "l", "m",
               "n", "o", "p", "q", "r", "s", "t", "u", "v", "w", "x", "y", "z"}
DigitChars == {"0", "1", "2", "3", "4", "5", "6", "7", "8", "9"}
\* the class \w
WordChars == UpperChars \cup LowerChars \cup DigitChars \cup {"_"}
SentenceEnders == {".", "!", "?"}

ABBREVIATIONS ==
    {<<"D", "r">>, <<"M", "r">>, <<"M", "r", "s">>, <<"M", "s">>,
     <<"P", "r", "o", "f">>, <<"S", "r">>, <<"J", "r">>, <<"v", "s">>,
     <<"e", "t", "c">>, <<"e", ".", "g">>, <<"i", ".", "e">>,
     <<"P", "h", ".", "D">>, <<"M", ".", "D">>, <<"B", ".", "A">>,
     <<"M", ".", "A">>, <<"U", ".", "S">>, <<"U", ".", "K">>,
     <<"U", ".", "N">>, <<"E", ".", "U">>, <<"I", "n", "c">>,
     <<"L", "t", "d">>, <<"C", "o">>, <<"C", "o", "r", "p">>,
     <<"J", "a", "n">>, <<"F", "e", "b">>, <<"M", "a", "r">>,
     <<"A", "p", "r">>, <<"J", "u", "n">>, <<"J", "u", "l">>,
     <<"A", "u", "g">>, <<"S", "e", "p">>, <<"S", "e", "p", "t">>,
     <<"O", "c", "t">>, <<"N", "o", "v">>, <<"D", "e", "c">>, <<"N", "o">>,
     <<"v", "o", "l">>, <<"p", "p">>, <<"F", "i", "g">>, <<"S", "t">>,
     <<"A", "v", "e">>, <<"B", "l", "v", "d">>}

\* text[i] for a 0-based i; "" stands for undefined
CharAt(text, i) == IF i >= 0 /\ i < Len(text) THEN text[i + 1] ELSE ""

\* the first index >= from whose character is not in the class
RECURSIVE SkipWhile(_, _, _)
SkipWhile(text, from, class) ==
    IF from < Len(text) /\ text[from + 1] \in class
    THEN SkipWhile(text, from + 1, class) ELSE from

\* text.slice(max(0, i - 10), i).match(/(\w+)$/): the word that ends at i
RECURSIVE WordSuffix(_)
WordSuffix(s) ==
    IF s # <<>> /\ s[Len(s)] \in WordChars
    THEN Append(WordSuffix(SubSeq(s, 1, Len(s) - 1)), s[Len(s)]) ELSE <<>>

WordBefore(text, i) == WordSuffix(Slice(text, Max(0, i - ABBREVIATION_WINDOW), i))

SentenceBoundary(start, end, text) == [start |-> start, end |-> end, text |-> text]

\* the for loop of detectSentences, and the remaining text after it
RECURSIVE SentenceLoop(_, _, _, _)
SentenceLoop(text, i, currentStart, sentences) ==
    IF i >= Len(text)
    THEN LET remaining == Trim(Slice(text, currentStart, Len(text))) IN
         IF currentStart < Len(text) /\ remaining # <<>>
         THEN Append(sentences, SentenceBoundary(currentStart, Len(text), remaining))
         ELSE sentences
    ELSE LET char == CharAt(text, i)
             nextChar == CharAt(text, i + 1)
             prevChar == CharAt(text, i - 1)
             charBeforePrev == CharAt(text, i - 2)
             sentenceEnd == SkipWhile(text, i + 1, {" ", "\t"})
             sentenceText == Trim(Slice(text, currentStart, sentenceEnd))
         IN IF char \notin SentenceEnders
            THEN SentenceLoop(text, i + 1, currentStart, sentences)
            ELSE IF char = "." /\ nextChar = "." /\ CharAt(text, i + 2) = "."
            THEN SentenceLoop(text, i + 3, currentStart, sentences)
            ELSE IF char = "." /\ prevChar \in UpperChars
                    /\ (charBeforePrev = "." \/ charBeforePrev = " " \/ i = 1)
            THEN SentenceLoop(text, i + 1, currentStart, sentences)
            ELSE IF char = "." /\ WordBefore(text, i) \in ABBREVIATIONS
            THEN SentenceLoop(text, i + 1, currentStart, sentences)
            ELSE IF char = "." /\ prevChar \in DigitChars /\ nextChar \in DigitChars
            THEN SentenceLoop(text, i + 1, currentStart, sentences)
            ELSE IF i + 1 >= Len(text) \/ IsSpace(nextChar)
            THEN SentenceLoop(text, i + 1, SkipWhile(text, sentenceEnd, {"\n", "\r"}),
                              IF sentenceText # <<>>
                              THEN Append(sentences,
                                          SentenceBoundary(currentStart, sentenceEnd,
                                                           sentenceText))
                              ELSE sentences)
            ELSE SentenceLoop(text, i + 1, currentStart, sentences)

detectSentences(text) == SentenceLoop(text, 0, SkipWhile(text, 0, Whitespace), <<>>)

\* the first of the sentences that satisfy a test of the loop, 0 when none does
FirstSentence(hits) ==
    IF hits = {} THEN 0 ELSE CHOOSE k \in hits : \A j \in hits : k <= j

\* the while loop that steps expandedEnd back over trailing whitespace
RECURSIVE TrimEnd(_, _, _)
TrimEnd(chunkText, expandedStart, expandedEnd) ==
    IF expandedEnd > expandedStart /\ IsSpace(CharAt(chunkText, expandedEnd - 1))
    THEN TrimEnd(chunkText, expandedStart, expandedEnd - 1) ELSE expandedEnd

\* the body of expandToSentence without the while loop at its end
ExpandWithinUntrimmed(sentences, chunkText, start, end) ==
    LET kStart == FirstSentence({k \in 1..Len(sentences) :
                                   sentences[k].start <= start /\ start < sentences[k].end})
        kEnd == FirstSentence({k \in 1..Len(sentences) :
                                 sentences[k].start < end /\ end <= sentences[k].end})
    IN IF Len(sentences) = 0 THEN [start |-> start, end |-> end]
       ELSE [start |-> IF kStart = 0 THEN start ELSE sentences[kStart].start,
             end |-> IF kEnd = 0 THEN end ELSE sentences[kEnd].end]

\* the body of expandToSentence once detectSentences has answered
ExpandWithin(sentences, chunkText, start, end) ==
    LET kStart == FirstSentence({k \in 1..Len(sentences) :
                                   sentences[k].start <= start /\ start < sentences[k].end})
        kEnd == FirstSentence({k \in 1..Len(sentences) :
                                 sentences[k].start < end /\ end <= sentences[k].end})
        expandedStart == IF kStart = 0 THEN start ELSE sentences[kStart].start
        expandedEnd == IF kEnd = 0 THEN end ELSE sentences[kEnd].end
    IN IF Len(sentences) = 0 THEN [start |-> start, end |-> end]
       ELSE [start |-> expandedStart,
             end |-> TrimEnd(chunkText, expandedStart, expandedEnd)]

expandToSentence(chunkText, start, end) ==
    ExpandWithin(detectSentences(chunkText), chunkText, start, end)

-----------------------------------------------------------------------------
(* Validation of the analysis response (shared/llm.ts) *)

\* JSON values, as far as typeof tells them apart
JsonNumber(n) == [type |-> "number", val |-> n]
JsonString == [type |-> "string", val |-> 0]
JsonUndefined == [type |-> "undefined", val |-> 0]
JsonObject(start, end) == [type |-> "object", start |-> start, end |-> end]
JsonNull == [type |-> "null", start |-> JsonUndefined, end |-> JsonUndefined]

LLMError(message, index) == [kind |-> "LLMError", message |-> message, index |-> index]
Valid(h) == [kind |-> "ok", highlight |-> h]

\* accepts start = end
validateHighlightLoose(h, index) ==
    IF h.type # "object" THEN LLMError("not an object", index)
    ELSE IF h.start.type # "number" \/ h.end.type # "number"
    THEN LLMError("invalid offset types", index)
    ELSE IF h.start.val > h.end.val THEN LLMError("invalid offset range", index)
    ELSE IF h.start.val < 0 THEN LLMError("negative start offset", index)
    ELSE Valid([start |-> h.start.val, end |-> h.end.val])

validateHighlight(h, index) ==
    IF h.type # "object" THEN LLMError("not an object", index)
    ELSE IF h.start.type # "number" \/ h.end.type # "number"
    THEN LLMError("invalid offset types", index)
    ELSE IF h.start.val >= h.end.val THEN LLMError("invalid offset range", index)
    ELSE IF h.start.val < 0 THEN LLMError("negative start offset", index)
    ELSE Valid([start |-> h.start.val, end |-> h.end.val])

\* a response: what extractContent finds in it, what JSON.parse makes of the
\* content, and what the parsed value holds under 'highlights'
Response(content, parsed, highlights) ==
    [content |-> content, parsed |-> parsed, highlights |-> highlights]

parseResponse(r) ==
    IF r.content = "empty" THEN LLMError("Empty response from LLM", -1)
    ELSE IF r.content = "invalid" THEN LLMError("Invalid JSON in response", -1)
    ELSE IF r.parsed # "object" THEN LLMError("Response is not an object", -1)
    ELSE IF r.highlights.type # "array"
    THEN LLMError("Response missing highlights array", -1)
    ELSE LET items == r.highlights.items
             validated == [k \in 1..Len(items) |-> validateHighlight(items[k], k - 1)]
             failed == {k \in 1..Len(items) : validated[k].kind = "LLMError"}
         IN IF failed # {}
            THEN validated[CHOOSE k \in failed : \A j \in failed : k <= j]
            ELSE [kind |-> "ok",
                  highlights |-> [k \in 1..Len(items) |-> validated[k].highlight]]

OffsetValues == {JsonNumber(n) : n \in -1..MaxOffset} \cup {JsonString, JsonUndefined}

HighlightValues == {JsonObject(a, b) : a \in OffsetValues, b \in OffsetValues} \cup {JsonNull}

JsonArray(items) == [type |-> "array", items |-> items]
NotAnArray == [type |-> "undefined", items |-> <<>>]

Responses ==
    {Response("empty", "none", NotAnArray), Response("invalid", "none", NotAnArray),
     Response("json", "string", NotAnArray), Response("json", "object", NotAnArray)}
    \cup {Response("json", "object", JsonArray(items)) :
            items \in UNION {[1..n -> HighlightValues] : n \in 0..MaxHighlights}}

ParseInit ==
    /\ doc = <<>>
    /\ edits = 0
    /\ AnchorIdle
    /\ OffsetIdle
    /\ AnalysisIdle
    /\ RestIdle
    /\ response \in Responses
    /\ parseResult = NoParse
    /\ pPc = "start"

ParseResponse ==
    /\ pPc = "start"
    /\ parseResult' = parseResponse(response)
    /\ pPc' = "parsed"
    /\ UNCHANGED <<response, pageVars, anchorVars, offsetVars, analysisVars, restVars>>

ParseNext == ParseResponse

SpecParse == ParseInit /\ [][ParseNext]_vars

\* what makes a response one to reject
Offending(h) ==
    \/ h.type # "object"
    \/ h.start.type # "number" \/ h.end.type # "number"
    \/ h.start.val >= h.end.val
    \/ h.start.val < 0

MustReject ==
    \/ response.highlights.type # "array"
    \/ \E k \in 1..Len(response.highlights.items) : Offending(response.highlights.items[k])

\* C10: parseResponse throws an LLMError when the highlights array is missing
\* or any highlight has a non-numeric offset, start >= end or start < 0; what
\* it returns is every highlight of the response with its offsets as given
C10_RejectsWhole ==
    pPc = "parsed"
    => /\ MustReject => parseResult.kind = "LLMError"
       /\ parseResult.kind = "ok"
            => /\ Len(parseResult.highlights) = Len(response.highlights.items)
               /\ \A k \in 1..Len(parseResult.highlights) :
                    /\ parseResult.highlights[k].start = response.highlights.items[k].start.val
                    /\ parseResult.highlights[k].end = response.highlights.items[k].end.val

\* a valid highlight followed by one with start = end: the whole is rejected
C10_Witness ==
    /\ pPc = "parsed"
    /\ response.content = "json"
    /\ response.highlights.type = "array"
    /\ Len(response.highlights.items) = 2
    /\ ~Offending(response.highlights.items[1])
    /\ response.highlights.items[2].type = "object"
    /\ response.highlights.items[2].start.type = "number"
    /\ response.highlights.items[2].end.type = "number"
    /\ response.highlights.items[2].start.val = response.highlights.items[2].end.val
    /\ parseResult.kind = "LLMError"
    /\ parseResult.index = 1

-----------------------------------------------------------------------------
(* The analysis flow (content.ts): startAnalysis, applyCachedHighlights,
   hideOverlay, toggleOverlay and handleReanalyze.  Each chunk of the page is
   one text node; a run of startAnalysis stops at each await and goes on
   when the awaited answer arrives. *)

TextTwoSentences == <<"a", ".", " ", "b", ".">>
TextOneSentence == <<"a", " ", "b">>
ChunkTexts == {TextTwoSentences, TextOneSentence}

\* the pages: the sequences of chunks chunkText returns, none for no text
Pages == UNION {[1..n -> ChunkTexts] : n \in 0..MaxChunks}

\* the offsets a response may give to a highlight, both valid for
\* validateHighlight; the second one ends past the chunk
LLMSpans == {<<0, 1>>, <<3, 9>>}

ChunkResponses ==
    {[kind |-> k, highlights |-> <<>>] : k \in {"none", "error", "throw"}}
    \cup {[kind |-> "highlights", highlights |-> hs] :
            hs \in UNION {[1..n -> LLMSpans] : n \in 0..MaxHighlights}}

RECURSIVE GlobalOffset(_, _)
GlobalOffset(pg, k) == IF k <= 1 THEN 0 ELSE GlobalOffset(pg, k - 1) + Len(pg[k - 1])

SetMax(S) == CHOOSE x \in S : \A y \in S : x >= y

\* what the text node of chunk k holds now: applyHighlight splits the node at
\* the start of the range it wraps (at its end for a range from offset 0), and
\* clearHighlights with normalize() gives the node its text back
NodeTextNow(pg, marks, k) ==
    LET here == {j \in 1..Len(marks) : marks[j].chunkIndex = k}
        first == SetMin({marks[j].start : j \in here})
        cut == IF first > 0 THEN first
               ELSE SetMin({marks[j].end : j \in {i \in here : marks[i].start = 0}})
    IN IF here = {} THEN pg[k] ELSE Slice(pg[k], 0, cut)

AnalysisDoc(pg, marks) == [k \in 1..Len(pg) |-> TextNode(NodeTextNow(pg, marks, k), FALSE)]

ChunkOf(pg, k) == [text |-> pg[k], nodeRanges |-> <<NodeRange(k, 0, Len(pg[k]), 0)>>]

ProcessedHighlight(id, start, end, text, range, rangeStart, rangeEnd, chunkIndex, run) ==
    [id |-> id, start |-> start, end |-> end, text |-> text, hasRange |-> range,
     rangeStart |-> rangeStart, rangeEnd |-> rangeEnd, chunkIndex |-> chunkIndex,
     questions |-> <<id>>, run |-> run]

\* the ProcessedHighlights of one response for chunk k, in the response's order
ProcessResponse(pg, marks, k, hs, firstId, run) ==
    [j \in 1..Len(hs) |->
        LET expanded == expandToSentence(pg[k], hs[j][1], hs[j][2])
            range == offsetToRange(AnalysisDoc(pg, marks), ChunkOf(pg, k),
                                   expanded.start, expanded.end)
        IN ProcessedHighlight(firstId + j - 1, hs[j][1], hs[j][2],
                              Slice(pg[k], expanded.start, expanded.end),
                              range.kind = "range", expanded.start,
                              Min(expanded.end, Len(pg[k])), k, run)]

\* the chunk a cached highlight falls in: the first whose text holds its start,
\* and chunk 0 with the global offsets when none does
ChunkIndexOf(pg, start) ==
    LET hits == {i \in 1..Len(pg) :
                    start >= GlobalOffset(pg, i) /\ start < GlobalOffset(pg, i) + Len(pg[i])}
    IN IF hits = {} THEN 0 ELSE SetMin(hits)

ProcessCached(pg, marks, cached, firstId, run) ==
    [j \in 1..Len(cached) |->
        LET found == ChunkIndexOf(pg, cached[j].start)
            k == IF found = 0 THEN 1 ELSE found
            base == IF found = 0 THEN 0 ELSE GlobalOffset(pg, k)
            localStart == cached[j].start - base
            localEnd == cached[j].end - base
            range == offsetToRange(AnalysisDoc(pg, marks), ChunkOf(pg, k),
                                   localStart, localEnd)
        IN ProcessedHighlight(firstId + j - 1, localStart, localEnd,
                              Slice(pg[k], localStart, localEnd),
                              range.kind = "range", localStart,
                              Min(localEnd, Len(pg[k])), k, run)]

\* existing.questions.push(...ph.questions), with the questions put in front
MergeQuestionsFirst(existing, questions) == questions \o existing

\* existing.questions.push(...ph.questions)
MergeQuestions(existing, questions) == existing \o questions

\* the for loop from highlight k on; seen holds the values of the Map in the
\* order their keys were set
RECURSIVE DedupLoop(_, _, _)
DedupLoop(highlights, k, seen) ==
    IF k > Len(highlights) THEN seen
    ELSE IF \E n \in 1..Len(seen) : seen[n].text = highlights[k].text
    THEN DedupLoop(highlights, k + 1,
                   [n \in 1..Len(seen) |->
                      IF seen[n].text = highlights[k].text
                      THEN [seen[n] EXCEPT !.questions =
                               MergeQuestions(@, highlights[k].questions)]
                      ELSE seen[n]])
    ELSE DedupLoop(highlights, k + 1, Append(seen, highlights[k]))

\* first occurrence of each text, with the questions of the later ones
deduplicateByText(highlights) == DedupLoop(highlights, 1, <<>>)

Reverse(seq) == [j \in 1..Len(seq) |-> seq[Len(seq) + 1 - j]]

\* the spans applyHighlight inserts for a deduplicated list: last to first,
\* those with a range only
MarksOf(deduped) ==
    LET withRange == SelectSeq(Reverse(deduped), LAMBDA ph : ph.hasRange)
    IN [j \in 1..Len(withRange) |->
          [id |-> withRange[j].id, chunkIndex |-> withRange[j].chunkIndex,
           start |-> withRange[j].rangeStart, end |-> withRange[j].rangeEnd,
           run |-> withRange[j].run]]

Awaiting == {"awaitCache", "awaitChunk", "awaitSave"}

Run(pc, force, i, forCache) ==
    [pc |-> pc, force |-> force, i |-> i, forCache |-> forCache, stale |-> FALSE]

\* a reset of the highlight state makes stale every run that awaits an answer
MarkStale(rs) ==
    [r \in 1..Len(rs) |->
        IF rs[r].pc \in Awaiting THEN [rs[r] EXCEPT !.stale = TRUE] ELSE rs[r]]

AnalysisInit ==
    /\ doc = <<>>
    /\ edits = 0
    /\ AnchorIdle
    /\ OffsetIdle
    /\ LlmIdle
    /\ RestIdle
    /\ page \in Pages
    /\ overlayVisible = FALSE
    /\ overlayState = "IDLE"
    /\ currentHighlights = <<>>
    /\ currentHighlightIndex = 0
    /\ isFromCache = FALSE
    /\ nextHighlightId = 0
    /\ domMarks = <<>>
    /\ cache = NoCache
    /\ runs = <<>>

\* startAnalysis up to its first await, for run r of the runs rs
BeginAnalysis(rs, r, force) ==
    /\ domMarks' = <<>>
    /\ currentHighlights' = <<>>
    /\ currentHighlightIndex' = 0
    /\ isFromCache' = FALSE
    /\ IF page = <<>>
       THEN /\ overlayState' = "ERROR"
            /\ runs' = [rs EXCEPT ![r] = Run("done", force, 0, <<>>)]
       ELSE IF ~force
       THEN /\ overlayState' = "EXTRACTING"
            /\ runs' = [rs EXCEPT ![r] = Run("awaitCache", force, 0, <<>>)]
       ELSE /\ overlayState' = "ANALYZING"
            /\ runs' = [rs EXCEPT ![r] = Run("awaitChunk", force, 1, <<>>)]

\* toggleOverlay with the overlay visible
HideOverlay ==
    /\ overlayVisible
    /\ overlayVisible' = FALSE
    /\ domMarks' = <<>>
    /\ currentHighlights' = <<>>
    /\ currentHighlightIndex' = 0
    /\ overlayState' = "IDLE"
    /\ runs' = MarkStale(runs)
    /\ UNCHANGED <<page, isFromCache, nextHighlightId, cache>>
    /\ UNCHANGED <<pageVars, anchorVars, offsetVars, llmVars, restVars>>

\* toggleOverlay with the overlay hidden: showOverlay, then startAnalysis()
ShowOverlay ==
    /\ ~overlayVisible
    /\ Len(runs) < MaxRuns
    /\ overlayVisible' = TRUE
    /\ BeginAnalysis(Append(MarkStale(runs), Run("new", FALSE, 0, <<>>)),
                     Len(runs) + 1, FALSE)
    /\ UNCHANGED <<page, nextHighlightId, cache>>
    /\ UNCHANGED <<pageVars, anchorVars, offsetVars, llmVars, restVars>>

\* handleReanalyze up to its await of clearCachedAnalysis
ClickReanalyze ==
    /\ overlayVisible
    /\ Len(runs) < MaxRuns
    /\ runs' = Append(runs, Run("awaitClear", TRUE, 0, <<>>))
    /\ UNCHANGED <<page, overlayVisible, overlayState, currentHighlights,
                   currentHighlightIndex, isFromCache, nextHighlightId, domMarks, cache>>
    /\ UNCHANGED <<pageVars, anchorVars, offsetVars, llmVars, restVars>>

\* the cache is cleared and handleReanalyze calls startAnalysis(true)
CacheCleared ==
    \E r \in 1..Len(runs) :
        /\ runs[r].pc = "awaitClear"
        /\ cache' = NoCache
        /\ BeginAnalysis(MarkStale(runs), r, TRUE)
        /\ UNCHANGED <<page, overlayVisible, nextHighlightId>>
        /\ UNCHANGED <<pageVars, anchorVars, offsetVars, llmVars, restVars>>

\* overlayState = 'DISPLAYING' with updateOverlayState and selectHighlight(0)
Display(r, highlights, rs) ==
    /\ overlayState' = "DISPLAYING"
    /\ currentHighlights' = deduplicateByText(highlights)
    /\ currentHighlightIndex' = IF Len(highlights) > 0 THEN 0 ELSE currentHighlightIndex
    /\ runs' = [rs EXCEPT ![r].pc = "done"]

\* getCachedAnalysis answers (or fails) and startAnalysis goes on
CacheAnswer ==
    \E r \in 1..Len(runs) : \E failed \in BOOLEAN :
        /\ runs[r].pc = "awaitCache"
        /\ failed \/ nextHighlightId + Len(cache) <= MaxIds
        /\ IF ~failed /\ Len(cache) > 0
           THEN LET processed == ProcessCached(page, domMarks, cache, nextHighlightId, r)
                    deduped == deduplicateByText(processed)
                IN /\ isFromCache' = TRUE
                   /\ nextHighlightId' = nextHighlightId + Len(cache)
                   /\ domMarks' = domMarks \o MarksOf(deduped)
                   /\ Display(r, currentHighlights \o deduped, runs)
           ELSE /\ overlayState' = "ANALYZING"
                /\ runs' = [runs EXCEPT ![r].pc = "awaitChunk", ![r].i = 1]
                /\ UNCHANGED <<currentHighlights, currentHighlightIndex, isFromCache,
                               nextHighlightId, domMarks>>
        /\ UNCHANGED <<page, overlayVisible, cache>>
        /\ UNCHANGED <<pageVars, anchorVars, offsetVars, llmVars, restVars>>

\* the loop of startAnalysis after chunk runs[r].i: the next chunk, the save
\* to the cache, or the display
AfterChunk(r, highlights, forCache) ==
    IF runs[r].i < Len(page)
    THEN /\ runs' = [runs EXCEPT ![r].i = runs[r].i + 1, ![r].forCache = forCache]
         /\ currentHighlights' = highlights
         /\ UNCHANGED <<overlayState, currentHighlightIndex>>
    ELSE IF Len(forCache) > 0
    THEN /\ runs' = [runs EXCEPT ![r].pc = "awaitSave", ![r].forCache = forCache]
         /\ currentHighlights' = highlights
         /\ UNCHANGED <<overlayState, currentHighlightIndex>>
    ELSE Display(r, highlights, runs)

\* i === 0, whatever the number of chunks
OnlyChunkFirst(i, pg) == i = 1

\* i === 0 && chunks.length === 1, for the chunk i counted from 1
OnlyChunk(i, pg) == i = 1 /\ Len(pg) = 1

\* the answer to ANALYZE_CHUNK for chunk runs[r].i arrives
ChunkAnswer ==
    \E r \in 1..Len(runs) : \E answer \in ChunkResponses :
        /\ runs[r].pc = "awaitChunk"
        /\ nextHighlightId + Len(answer.highlights) <= MaxIds
        /\ IF answer.kind # "highlights"
           THEN /\ IF OnlyChunk(runs[r].i, page)
                   THEN /\ overlayState' = "ERROR"
                        /\ runs' = [runs EXCEPT ![r].pc = "done"]
                        /\ UNCHANGED <<currentHighlights, currentHighlightIndex>>
                   ELSE AfterChunk(r, currentHighlights, runs[r].forCache)
                /\ UNCHANGED <<nextHighlightId, domMarks>>
           ELSE LET k == runs[r].i
                    processed == ProcessResponse(page, domMarks, k, answer.highlights,
                                                 nextHighlightId, r)
                    deduped == deduplicateByText(processed)
                    forCache ==
                        [j \in 1..Len(processed) |->
                            LET expanded == expandToSentence(page[k], processed[j].start,
                                                             processed[j].end)
                            IN [start |-> expanded.start + GlobalOffset(page, k),
                                end |-> expanded.end + GlobalOffset(page, k)]]
                IN /\ nextHighlightId' = nextHighlightId + Len(answer.highlights)
                   /\ domMarks' = domMarks \o MarksOf(deduped)
                   /\ AfterChunk(r, currentHighlights \o deduped,
                                 runs[r].forCache \o forCache)
        /\ UNCHANGED <<page, overlayVisible, isFromCache, cache>>
        /\ UNCHANGED <<pageVars, anchorVars, offsetVars, llmVars, restVars>>

\* the save to the cache ends (or fails) and the results are displayed
CacheSaved ==
    \E r \in 1..Len(runs) : \E failed \in BOOLEAN :
        /\ runs[r].pc = "awaitSave"
        /\ cache' = IF failed THEN cache ELSE runs[r].forCache
        /\ Display(r, currentHighlights, runs)
        /\ UNCHANGED <<page, overlayVisible, isFromCache, nextHighlightId, domMarks>>
        /\ UNCHANGED <<pageVars, anchorVars, offsetVars, llmVars, restVars>>

AnalysisNext ==
    \/ HideOverlay \/ ShowOverlay \/ ClickReanalyze \/ CacheCleared
    \/ CacheAnswer \/ ChunkAnswer \/ CacheSaved

SpecAnalysis == AnalysisInit /\ [][AnalysisNext]_vars

-----------------------------------------------------------------------------
(* Properties of the analysis flow *)

\* C6: within one chunk, the highlights of one response (or of a cache hit)
\* are inserted in descending order of their start offsets: of two spans of
\* the same run and chunk, the one inserted first starts further on
C6_DescendingInsertion ==
    \A i \in 1..Len(domMarks) : \A j \in 1..Len(domMarks) :
        (i < j /\ domMarks[i].run = domMarks[j].run
               /\ domMarks[i].chunkIndex = domMarks[j].chunkIndex)
        => domMarks[i].start > domMarks[j].start

\* C7: the answer that arrives for a run made stale by a reset is discarded:
\* the step in which the stale run goes on adds nothing to currentHighlights,
\* wraps nothing in the document and leaves overlayState as it was
C7_StaleDiscarded ==
    [][\A r \in 1..Len(runs) :
          (runs[r].stale /\ runs'[r] # runs[r])
          => /\ currentHighlights' = currentHighlights
             /\ domMarks' = domMarks
             /\ overlayState' = overlayState]_vars

-----------------------------------------------------------------------------
(* The Socratic chat on one highlight (content.ts: openChatPanel and
   sendChatMessage; shared/llm.ts: parseChatResponse, callSocraticChat).
   Scores are counted in hundredths: 0.98 is 98. *)

MaxTurns == 7

INITIAL_APORIA == 10

\* what the chat model may put under 'aporiaScore'
RawScores == {-50, 0, 10, 30, 40, 60, 70, 98, 100, 150}
ScoreValues == {JsonNumber(n) : n \in RawScores} \cup {JsonString, JsonUndefined}

\* the answers of the provider: an HTTP failure, a body without content, a
\* content that is not JSON, or a JSON object
ChatReplies ==
    {[kind |-> k, aporiaScore |-> JsonUndefined] : k \in {"http", "empty", "invalid"}}
    \cup {[kind |-> "json", aporiaScore |-> v] : v \in ScoreValues}

\* Math.max(0, Math.min(1, rawScore)) without the clamp
ClampScoreNone(rawScore) == rawScore

\* Math.max(0, Math.min(1, rawScore))
ClampScore(rawScore) == Max(0, Min(100, rawScore))

ChatResult(aporiaScore) == [kind |-> "ok", aporiaScore |-> aporiaScore]

parseChatResponse(reply) ==
    IF reply.kind = "empty" THEN LLMError("Empty response from LLM", -1)
    ELSE IF reply.kind = "invalid" THEN LLMError("Invalid JSON in chat response", -1)
    ELSE LET rawScore == IF reply.aporiaScore.type = "number"
                         THEN reply.aporiaScore.val ELSE 0
         IN ChatResult(ClampScore(rawScore))

callSocraticChat(reply) ==
    IF reply.kind = "http" THEN LLMError("API error", -1) ELSE parseChatResponse(reply)

\* the answer to the SOCRATIC_CHAT message: the result of the chat service,
\* or its error
handleSocraticChat(reply) ==
    LET result == callSocraticChat(reply) IN
    IF result.kind = "ok"
    THEN [kind |-> "result", aporiaScore |-> JsonNumber(result.aporiaScore)]
    ELSE [kind |-> "error", aporiaScore |-> JsonUndefined]

\* what chrome.runtime.sendMessage gives sendChatMessage: the handler's
\* answer, an answer without a score, no answer at all, or a rejection
ChatOutcomes ==
    ChatReplies
    \cup {[kind |-> k, aporiaScore |-> JsonUndefined] : k \in {"noscore", "undefined", "throw"}}

MessageResponse(outcome) ==
    IF outcome.kind \in {"noscore", "undefined", "throw"}
    THEN [kind |-> IF outcome.kind = "noscore" THEN "result" ELSE outcome.kind,
          aporiaScore |-> JsonUndefined]
    ELSE handleSocraticChat(outcome)

ChatMessage(role, aporiaScore) == [role |-> role, aporiaScore |-> aporiaScore]

\* the new score is the one returned
NewScoreLast(aporiaScore, newScore) == newScore

\* Math.max(session.aporiaScore, newScore)
NewScore(aporiaScore, newScore) == Max(aporiaScore, newScore)

CoreIdle ==
    /\ doc = <<>>
    /\ edits = 0
    /\ AnchorIdle
    /\ OffsetIdle
    /\ LlmIdle
    /\ AnalysisIdle

ChatInit ==
    /\ doc = <<>>
    /\ edits = 0
    /\ AnchorIdle
    /\ OffsetIdle
    /\ LlmIdle
    /\ AnalysisIdle
    /\ ChatIdle
    /\ SemIdle
    /\ DedupIdle
    /\ StorageIdle
    /\ MoreIdle

OpenChatPanel ==
    /\ chatSession = NoSession
    /\ chatSession' = [aporiaScore |-> INITIAL_APORIA,
                       history |-> <<ChatMessage("system", 0), ChatMessage("user", 0),
                                     ChatMessage("assistant", INITIAL_APORIA)>>]
    /\ UNCHANGED <<chatReply, chatPc>>
    /\ UNCHANGED exceptChat

\* sendChatMessage up to its await
SendChatMessage ==
    /\ chatSession # NoSession
    /\ chatPc = "idle"
    /\ Len(chatSession.history) < 3 + 2 * MaxTurns
    /\ chatSession' = [chatSession EXCEPT !.history = Append(@, ChatMessage("user", 0))]
    /\ chatPc' = "awaiting"
    /\ UNCHANGED chatReply
    /\ UNCHANGED exceptChat

\* the answer arrives, or the request fails, and sendChatMessage ends
ChatAnswer ==
    /\ chatPc = "awaiting"
    /\ \E outcome \in ChatOutcomes :
          LET resp == MessageResponse(outcome)
              newScore == IF resp.aporiaScore.type = "undefined" THEN 0
                          ELSE resp.aporiaScore.val
              score == IF resp.kind = "result"
                       THEN NewScore(chatSession.aporiaScore, newScore)
                       ELSE chatSession.aporiaScore
          IN /\ chatReply' = outcome
             /\ chatSession' = [aporiaScore |-> score,
                                history |-> Append(chatSession.history,
                                                   ChatMessage("assistant", score))]
    /\ chatPc' = "idle"
    /\ UNCHANGED exceptChat

ChatNext == OpenChatPanel \/ SendChatMessage \/ ChatAnswer

SpecChat == ChatInit /\ [][ChatNext]_vars

-----------------------------------------------------------------------------
(* Properties of the chat *)

\* the scores the assistant messages of the history record, in order
AssistantScores ==
    LET idx == SelectSeq([k \in 1..Len(chatSession.history) |-> k],
                         LAMBDA k : chatSession.history[k].role = "assistant")
    IN [k \in 1..Len(idx) |-> chatSession.history[idx[k]].aporiaScore]

Answered == chatPc = "idle" /\ chatReply # NoReply

\* the score of the session before the last turn
PreviousScore == AssistantScores[Len(AssistantScores) - 1]

ReturnedNumber == chatReply.kind = "json" /\ chatReply.aporiaScore.type = "number"

\* C11: the score of a chat session never decreases: after every turn it is
\* max(previous score, returned score) for a returned score, and the previous
\* score when the turn returns none (a missing score, an error, a failed
\* request); the scores tracked over the turns are in ascending order
C11_ScoreMonotone ==
    /\ \A k \in 1..(Len(AssistantScores) - 1) : AssistantScores[k] <= AssistantScores[k + 1]
    /\ Answered =>
         /\ chatSession.aporiaScore = AssistantScores[Len(AssistantScores)]
         /\ chatSession.aporiaScore >= PreviousScore
         /\ (ReturnedNumber /\ chatReply.aporiaScore.val \in 0..100)
              => chatSession.aporiaScore = Max(PreviousScore, chatReply.aporiaScore.val)
         /\ ~ReturnedNumber => chatSession.aporiaScore = PreviousScore

\* the returned scores 0.1, 0.4, 0.6, 0.3, 0.98, 1.0, 0.7 were tracked as
\* 0.1, 0.4, 0.6, 0.6, 0.98, 1.0, 1.0
C11_Witness ==
    /\ Answered
    /\ AssistantScores = <<10, 10, 40, 60, 60, 98, 100, 100>>
    /\ ReturnedNumber /\ chatReply.aporiaScore.val = 70

-----------------------------------------------------------------------------
(* Semantic chunking (shared/semantic-chunking.ts): detectParagraphs,
   isParagraphBoundary and createSemanticChunks.  The salience of a chunk is
   left out: it is computed from the chunk's text and changes nothing else. *)

MaxUnits == 3
MaxWords == 2

TRANSITION_WINDOW == 50

PARAGRAPH_TRANSITIONS ==
    {<<"f", "u", "r", "t", "h", "e", "r", "m", "o", "r", "e">>,
     <<"m", "o", "r", "e", "o", "v", "e", "r">>,
     <<"a", "d", "d", "i", "t", "i", "o", "n", "a", "l", "l", "y">>,
     <<"i", "n", " ", "a", "d", "d", "i", "t", "i", "o", "n">>,
     <<"f", "i", "r", "s", "t">>, <<"s", "e", "c", "o", "n", "d">>,
     <<"t", "h", "i", "r", "d">>, <<"f", "i", "n", "a", "l", "l", "y">>,
     <<"l", "a", "s", "t", "l", "y">>,
     <<"i", "n", " ", "c", "o", "n", "c", "l", "u", "s", "i", "o", "n">>,
     <<"t", "o", " ", "s", "u", "m", "m", "a", "r", "i", "z", "e">>,
     <<"i", "n", " ", "s", "u", "m", "m", "a", "r", "y">>,
     <<"m", "e", "a", "n", "w", "h", "i", "l", "e">>,
     <<"s", "u", "b", "s", "e", "q", "u", "e", "n", "t", "l", "y">>,
     <<"p", "r", "e", "v", "i", "o", "u", "s", "l", "y">>,
     <<"a", "n", "o", "t", "h", "e", "r">>, <<"n", "e", "x", "t">>,
     <<"t", "h", "e", "n">>}

UpperSeq == <<"A", "B", "C", "D", "E", "F", "G", "H", "I", "J", "K", "L", "M",
              "N", "O", "P", "Q", "R", "S", "T", "U", "V", "W", "X", "Y", "Z">>
LowerSeq == <<"a", "b", "c", "d", "e", "f", "g", "h", "i", "j", "k", "l", "m",
              "n", "o", "p", "q", "r", "s", "t", "u", "v", "w", "x", "y", "z">>

toLowerCase(s) ==
    [k \in 1..Len(s) |->
        IF s[k] \in UpperChars
        THEN LowerSeq[CHOOSE j \in 1..Len(UpperSeq) : UpperSeq[j] = s[k]] ELSE s[k]]

\* /\n\s*\n/.test(between)
HasBlankLine(between) ==
    \E i \in 1..Len(between) : \E j \in (i + 1)..Len(between) :
        /\ between[i] = "\n" /\ between[j] = "\n"
        /\ \A k \in (i + 1)..(j - 1) : IsSpace(between[k])

\* the loop over PARAGRAPH_TRANSITIONS
StartsWithTransition(nextSentenceStart) ==
    \E transition \in PARAGRAPH_TRANSITIONS :
        \/ StartsWith(nextSentenceStart, transition \o <<" ">>)
        \/ nextSentenceStart = transition

isParagraphBoundary(text, end1, start2) ==
    \/ HasBlankLine(Slice(text, end1, start2))
    \/ /\ \E i \in (end1 + 1)..Min(start2, Len(text)) : text[i] = "\n"
       /\ StartsWithTransition(Trim(toLowerCase(Slice(text, start2,
                                                       start2 + TRANSITION_WINDOW))))

Paragraph(start, end, sentences) == [start |-> start, end |-> end, sentences |-> sentences]

\* the for loop of detectParagraphs from sentence i on
RECURSIVE ParagraphLoop(_, _, _, _, _, _)
ParagraphLoop(text, sentences, i, paragraphs, currentParagraph, paragraphStart) ==
    IF i > Len(sentences) THEN paragraphs
    ELSE IF i = Len(sentences)
            \/ isParagraphBoundary(text, sentences[i].end, sentences[i + 1].start)
    THEN ParagraphLoop(text, sentences, i + 1,
                       Append(paragraphs,
                              Paragraph(paragraphStart, sentences[i].end,
                                        Append(currentParagraph, sentences[i]))),
                       <<>>,
                       IF i < Len(sentences) THEN sentences[i + 1].start
                       ELSE paragraphStart)
    ELSE ParagraphLoop(text, sentences, i + 1, paragraphs,
                       Append(currentParagraph, sentences[i]), paragraphStart)

ParagraphsOf(text, sentences) ==
    IF Len(sentences) = 0 THEN <<>>
    ELSE ParagraphLoop(text, sentences, 1, <<>>, <<>>, sentences[1].start)

detectParagraphs(text) == ParagraphsOf(text, detectSentences(text))

\* sentence.text.split(/\s+/).length
WordCount(s) ==
    IF s = <<>> THEN 1
    ELSE Cardinality({k \in 1..Len(s) : ~IsSpace(s[k]) /\ (k = 1 \/ IsSpace(s[k - 1]))})
         + (IF IsSpace(s[1]) THEN 1 ELSE 0) + (IF IsSpace(s[Len(s)]) THEN 1 ELSE 0)

SemanticChunk(text, start, end, wordCount, sentences) ==
    [text |-> text, start |-> start, end |-> end, wordCount |-> wordCount,
     sentences |-> sentences]

\* the variables createSemanticChunks loops over
ChunkState(chunks, currentChunkSentences, currentWordCount, chunkStart) ==
    [chunks |-> chunks, currentChunkSentences |-> currentChunkSentences,
     currentWordCount |-> currentWordCount, chunkStart |-> chunkStart]

\* the chunk ends where its last sentence starts
ChunkEndAtStart(currentChunkSentences) ==
    currentChunkSentences[Len(currentChunkSentences)].start

\* currentChunkSentences[currentChunkSentences.length - 1].end
ChunkEnd(currentChunkSentences) ==
    currentChunkSentences[Len(currentChunkSentences)].end

finalizeChunk(text, st) ==
    IF Len(st.currentChunkSentences) = 0 THEN st
    ELSE ChunkState(Append(st.chunks,
                           SemanticChunk(Slice(text, st.chunkStart,
                                               ChunkEnd(st.currentChunkSentences)),
                                         st.chunkStart,
                                         ChunkEnd(st.currentChunkSentences),
                                         st.currentWordCount,
                                         st.currentChunkSentences)),
                    <<>>, 0,
                    SkipWhile(text, ChunkEnd(st.currentChunkSentences), Whitespace))

\* the sentence is added to the current chunk
PushSentence(st, sentence, sentenceWords) ==
    ChunkState(st.chunks, Append(st.currentChunkSentences, sentence),
               st.currentWordCount + sentenceWords, st.chunkStart)

\* no chunk is closed before a sentence
BeforeSentenceNever(text, st, sentenceWords, params) == st

\* the chunk is closed before a sentence that would take it over the maximum
BeforeSentence(text, st, sentenceWords, params) ==
    IF st.currentWordCount + sentenceWords > params.maxWordCount
       /\ Len(st.currentChunkSentences) > 0
    THEN finalizeChunk(text, st) ELSE st

\* the break at a paragraph's end once the target is reached
AtTarget(text, st, isLastSentenceInParagraph, params) ==
    IF st.currentWordCount >= params.targetWordCount
       /\ st.currentWordCount >= params.minWordCount
       /\ isLastSentenceInParagraph
    THEN finalizeChunk(text, st) ELSE st

\* no break after a paragraph
AfterParagraphNever(text, st, params) == st

\* the break after a paragraph when the chunk is above the minimum
AfterParagraph(text, st, params) ==
    IF st.currentWordCount >= params.minWordCount /\ Len(st.currentChunkSentences) > 0
    THEN finalizeChunk(text, st) ELSE st

\* the sentences left after the loops are dropped
RemainingDropped(text, st) == st.chunks

\* the sentences left after the loops form the final chunk
Remaining(text, st) == finalizeChunk(text, st).chunks

\* the two for loops, from sentence k of paragraph p on
RECURSIVE ChunkLoop(_, _, _, _, _, _)
ChunkLoop(text, paragraphs, p, k, st, params) ==
    IF p > Len(paragraphs) THEN Remaining(text, st)
    ELSE IF k > Len(paragraphs[p].sentences)
    THEN ChunkLoop(text, paragraphs, p + 1, 1, AfterParagraph(text, st, params), params)
    ELSE ChunkLoop(text, paragraphs, p, k + 1,
                   AtTarget(text,
                            PushSentence(BeforeSentence(text, st,
                                             WordCount(paragraphs[p].sentences[k].text),
                                             params),
                                         paragraphs[p].sentences[k],
                                         WordCount(paragraphs[p].sentences[k].text)),
                            k = Len(paragraphs[p].sentences), params),
                   params)

ChunksOf(text, paragraphs, params) ==
    IF Len(paragraphs) = 0 THEN <<>>
    ELSE ChunkLoop(text, paragraphs, 1, 1,
                   ChunkState(<<>>, <<>>, 0, paragraphs[1].start), params)

createSemanticChunks(text, params) == ChunksOf(text, detectParagraphs(text), params)

\* the texts: up to MaxUnits units with a separator between two of them, and
\* each abbreviation of the list at the head of a sentence
Units ==
    {<<"a", ".">>, <<"a", " ", "a", ".">>, <<"a", "?">>, <<"a">>,
     <<"D", "r", ".", " ", "a", ".">>, <<"e", ".", "g", ".", " ", "a", ".">>,
     <<"t", "h", "e", "n", " ", "a", ".">>, <<"a", ".", "b">>}
Separators == {<<" ">>, <<"\n">>, <<"\n", "\n">>, <<>>}

RECURSIVE UnitTexts(_)
UnitTexts(n) ==
    IF n = 1 THEN Units
    ELSE {t \o sep \o u : t \in UnitTexts(n - 1), sep \in Separators, u \in Units}

AbbreviationTexts == {abbr \o <<".", " ", "a", ".">> : abbr \in ABBREVIATIONS}

SemTexts == {<<>>} \cup UNION {UnitTexts(n) : n \in 1..MaxUnits} \cup AbbreviationTexts

SemParams ==
    {[targetWordCount |-> t, minWordCount |-> mn, maxWordCount |-> mx] :
        t \in 1..MaxWords, mn \in 1..MaxWords, mx \in 1..MaxWords}

SemInit ==
    /\ doc = <<>>
    /\ edits = 0
    /\ AnchorIdle
    /\ OffsetIdle
    /\ LlmIdle
    /\ AnalysisIdle
    /\ ChatIdle
    /\ DedupIdle
    /\ StorageIdle
    /\ MoreIdle
    /\ semText \in SemTexts
    /\ semParams \in {q \in SemParams : q.minWordCount <= q.targetWordCount
                                        /\ q.targetWordCount <= q.maxWordCount}
    /\ semSentences = <<>>
    /\ semChunks = <<>>
    /\ sPc = "start"

CreateSemanticChunks ==
    /\ sPc = "start"
    /\ semSentences' = detectSentences(semText)
    /\ semChunks' = createSemanticChunks(semText, semParams)
    /\ sPc' = "chunked"
    /\ UNCHANGED <<semText, semParams>>
    /\ UNCHANGED exceptSem

SemNext == CreateSemanticChunks

SpecSem == SemInit /\ [][SemNext]_vars

-----------------------------------------------------------------------------
(* Properties of semantic chunking *)

Chunked == sPc = "chunked"

EndsWithPunctuation(s) == Trim(s) # <<>> /\ Trim(s)[Len(Trim(s))] \in SentenceEnders

HasPunctuation(s) == \E k \in 1..Len(s) : s[k] \in SentenceEnders

\* C13 as claimed: when the text holds a '.', '!' or '?', the trimmed text of
\* every chunk ends with one
C13_EveryChunkTerminated ==
    (Chunked /\ HasPunctuation(semText))
    => \A k \in 1..Len(semChunks) : EndsWithPunctuation(semChunks[k].text)

\* C13, amended: the trimmed text of every chunk but the last ends with '.',
\* '!' or '?', and that of the last chunk does whenever the trimmed text does
C13_ChunksTerminated ==
    Chunked
    => \A k \in 1..Len(semChunks) :
          (k < Len(semChunks) \/ EndsWithPunctuation(semText))
          => EndsWithPunctuation(semChunks[k].text)

\* two chunks, the second one the text's remainder without a terminator
C13_Witness ==
    /\ Chunked
    /\ Len(semChunks) = 2
    /\ HasPunctuation(semChunks[2].text)
    /\ EndsWithPunctuation(semChunks[1].text)
    /\ ~EndsWithPunctuation(semChunks[2].text)

\* the sentence lists of the chunks, one after the other
RECURSIVE ChunkSentences(_, _)
ChunkSentences(chunks, k) ==
    IF k > Len(chunks) THEN <<>>
    ELSE chunks[k].sentences \o ChunkSentences(chunks, k + 1)

\* C14: the sentence lists of the chunks, concatenated in chunk order, are
\* the sequence detectSentences returns for the text, and every chunk ends
\* where its last sentence ends
C14_SentencesConserved ==
    Chunked
    => /\ ChunkSentences(semChunks, 1) = semSentences
       /\ \A k \in 1..Len(semChunks) :
            /\ Len(semChunks[k].sentences) > 0
            /\ semChunks[k].end = semChunks[k].sentences[Len(semChunks[k].sentences)].end

\* three sentences in two paragraphs come back in two chunks
C14_Witness ==
    /\ Chunked
    /\ Len(semSentences) = 3
    /\ Len(semChunks) = 2
    /\ Len(semChunks[1].sentences) = 2
    /\ ChunkSentences(semChunks, 1) = semSentences

\* C15 as claimed: no chunk has more than max words, and every chunk but the
\* last has at least min
C15_WordCountInRange ==
    Chunked
    => \A k \in 1..Len(semChunks) :
          /\ semChunks[k].wordCount <= semParams.maxWordCount
          /\ k < Len(semChunks) => semChunks[k].wordCount >= semParams.minWordCount

\* C15, amended: a chunk of more than one sentence has at most max words, a
\* chunk of one sentence has the words of that sentence, and a chunk that is
\* not the last has at least min words unless the sentence after it would
\* have taken it past max
C15_WordCountBySentence ==
    Chunked
    => \A k \in 1..Len(semChunks) :
          /\ Len(semChunks[k].sentences) > 1
               => semChunks[k].wordCount <= semParams.maxWordCount
          /\ Len(semChunks[k].sentences) = 1
               => semChunks[k].wordCount = WordCount(semChunks[k].sentences[1].text)
          /\ k < Len(semChunks)
               => \/ semChunks[k].wordCount >= semParams.minWordCount
                  \/ semChunks[k].wordCount
                       + WordCount(semChunks[k + 1].sentences[1].text)
                          > semParams.maxWordCount

\* a chunk of two sentences at the maximum, closed before a third sentence
C15_Witness ==
    /\ Chunked
    /\ Len(semChunks) >= 2
    /\ Len(semChunks[1].sentences) = 2
    /\ semChunks[1].wordCount = semParams.maxWordCount
    /\ semChunks[1].wordCount < semParams.targetWordCount + 1
    /\ semChunks[2].wordCount < semParams.minWordCount

\* the 0-based places of the periods that follow an abbreviation of the list
AbbreviationPeriods(text) ==
    {i \in 0..(Len(text) - 1) :
        /\ text[i + 1] = "."
        /\ \E abbr \in ABBREVIATIONS :
              /\ i >= Len(abbr)
              /\ Slice(text, i - Len(abbr), i) = abbr
              /\ CharAt(text, i - Len(abbr) - 1) \notin (WordChars \cup {"."})}

\* the place of the last character of a sentence that is not white space
Terminator(text, sentence) ==
    sentence.start + Len(TrimRight(Slice(text, sentence.start, sentence.end))) - 1

\* C16: no sentence but the last ends at the period of an abbreviation of the
\* list, dotted or not, also when white space follows that period
C16_AbbreviationsKept ==
    Chunked
    => \A k \in 1..(Len(semSentences) - 1) :
          Terminator(semText, semSentences[k]) \notin AbbreviationPeriods(semText)

\* C30: for the text and the minimum and maximum given, createSemanticChunks
\* returns the same chunks for every target from the minimum to the maximum
C30_TargetIrrelevant ==
    Chunked
    => \A target \in semParams.minWordCount..semParams.maxWordCount :
          createSemanticChunks(semText, [semParams EXCEPT !.targetWordCount = target])
             = semChunks

\* a paragraph ends at the minimum and under the target, and the chunk is closed
C30_Witness ==
    /\ Chunked
    /\ semParams.minWordCount < semParams.targetWordCount
    /\ Len(semChunks) = 2
    /\ semChunks[1].wordCount = semParams.minWordCount
    /\ Len(detectParagraphs(semText)) = 2
    /\ semChunks[1].end = detectParagraphs(semText)[1].end

-----------------------------------------------------------------------------
(* deduplicateByText on a list of highlights *)

MaxDedup == 4

\* the texts highlights expand to; a user highlight can have the empty text
DedupTexts == {<<"a", ".">>, <<"b", ".">>, <<>>}

\* highlight k comes with one question, with two after an earlier merge, or
\* with none (a user highlight)
DedupQuestions(k) == {<<>>, <<k>>, <<k, k + MaxDedup>>}

DedupHighlight(k, text, questions) == [id |-> k, text |-> text, questions |-> questions]

RECURSIVE DedupInputs(_)
DedupInputs(n) ==
    IF n = 0 THEN {<<>>}
    ELSE {Append(hs, DedupHighlight(n, text, questions)) :
            hs \in DedupInputs(n - 1), text \in DedupTexts,
            questions \in DedupQuestions(n)}

DedupInit ==
    /\ CoreIdle
    /\ ChatIdle
    /\ SemIdle
    /\ StorageIdle
    /\ MoreIdle
    /\ dedupInput \in UNION {DedupInputs(n) : n \in 0..MaxDedup}
    /\ dedupOutput = <<>>
    /\ dPc = "start"

DeduplicateByText ==
    /\ dPc = "start"
    /\ dedupOutput' = deduplicateByText(dedupInput)
    /\ dPc' = "done"
    /\ UNCHANGED dedupInput
    /\ UNCHANGED exceptDedup

DedupNext == DeduplicateByText

SpecDedup == DedupInit /\ [][DedupNext]_vars

TextsOf(highlights) == {highlights[j].text : j \in 1..Len(highlights)}

FirstWithText(highlights, text) ==
    SetMin({j \in 1..Len(highlights) : highlights[j].text = text})

\* the questions of the highlights with this text, from highlight k on
RECURSIVE QuestionsWithText(_, _, _)
QuestionsWithText(highlights, text, k) ==
    IF k > Len(highlights) THEN <<>>
    ELSE (IF highlights[k].text = text THEN highlights[k].questions ELSE <<>>)
         \o QuestionsWithText(highlights, text, k + 1)

\* C17: deduplicateByText returns one entry for each distinct text, in the
\* order the texts first occur; the entry is the first highlight with the text,
\* and its questions are those of all the highlights with the text, in the
\* order of the input
C17_FirstOccurrenceKept ==
    dPc = "done"
    => /\ TextsOf(dedupOutput) = TextsOf(dedupInput)
       /\ Len(dedupOutput) = Cardinality(TextsOf(dedupInput))
       /\ \A n \in 1..Len(dedupOutput) :
            /\ dedupOutput[n].id
                 = dedupInput[FirstWithText(dedupInput, dedupOutput[n].text)].id
            /\ dedupOutput[n].questions
                 = QuestionsWithText(dedupInput, dedupOutput[n].text, 1)
            /\ \A m \in 1..(n - 1) :
                 FirstWithText(dedupInput, dedupOutput[m].text)
                    < FirstWithText(dedupInput, dedupOutput[n].text)

\* two texts that alternate over four highlights, each with a question
C17_Witness ==
    /\ dPc = "done"
    /\ Len(dedupInput) = 4
    /\ dedupInput[1].text = dedupInput[3].text
    /\ dedupInput[2].text = dedupInput[4].text
    /\ dedupInput[1].text # dedupInput[2].text
    /\ Len(dedupOutput) = 2
    /\ dedupOutput[1].questions = <<1, 3, 3 + MaxDedup>>
    /\ dedupOutput[2].questions = <<2, 4>>

-----------------------------------------------------------------------------
(* shared/storage.ts: the keys, and chrome.storage as a map from key to value *)

\* 24 * 60 * 60 * 1000
CACHE_MAX_AGE_MS == 86400000
NOTES_PREFIX == <<"n", "o", "t", "e", "s", ":">>
CACHE_PREFIX == <<"c", "a", "c", "h", "e", ":">>

\* what new URL(url) finds in a url that parses; window.location.href and a
\* tab's url always parse
Url(host, pathname, search) == [host |-> host, pathname |-> pathname, search |-> search]

getUrlKey(url) == url.host \o url.pathname

getNoteKey(url, highlightId) == NOTES_PREFIX \o getUrlKey(url) \o <<":">> \o highlightId

getCacheKey(url) == CACHE_PREFIX \o getUrlKey(url)

\* chrome.storage.*.set({[key]: value})
StoreSet(store, key, value) ==
    [k \in DOMAIN store \cup {key} |-> IF k = key THEN value ELSE store[k]]

\* chrome.storage.*.remove(key)
StoreRemove(store, key) == [k \in DOMAIN store \ {key} |-> store[k]]

Undefined == [kind |-> "undefined"]
Null == [kind |-> "null"]

\* chrome.storage.*.get(key), result[key]
StoreGet(store, key) == IF key \in DOMAIN store THEN store[key] ELSE Undefined

CachedAnalysis(highlights, timestamp, contentHash) ==
    [kind |-> "entry", highlights |-> highlights, timestamp |-> timestamp,
     contentHash |-> contentHash]

Urls ==
    {Url(host, pathname, search) :
        host \in {<<"x">>, <<"y">>},
        pathname \in {<<"/", "a">>, <<"/", "a", ":", "b">>},
        search \in {<<>>, <<"?", "q">>}}

-----------------------------------------------------------------------------
(* The analysis cache: setCachedAnalysis, getCachedAnalysis and
   clearCachedAnalysis, with the clock moving between their steps *)

\* the instants the clock shows: the start, and those around 24 hours later
Instants == {0, 1, CACHE_MAX_AGE_MS, CACHE_MAX_AGE_MS + 1, CACHE_MAX_AGE_MS + 2}

CacheUrls == {u \in Urls : u.host = <<"x">> /\ (u.search = <<>> \/ u.pathname = <<"/", "a">>)}

\* the highlights of an analysis and the hash of the text analysed
CacheInputs ==
    {[highlights |-> <<[start |-> 0, end |-> 1]>>, contentHash |-> <<"1", "f">>],
     [highlights |-> <<>>, contentHash |-> <<"2", "a">>]}

\* Date.now() - cached.timestamp >= CACHE_MAX_AGE_MS
ExpiredAtMaxAge(cached, dateNow) == dateNow - cached.timestamp >= CACHE_MAX_AGE_MS

\* Date.now() - cached.timestamp > CACHE_MAX_AGE_MS
Expired(cached, dateNow) == dateNow - cached.timestamp > CACHE_MAX_AGE_MS

CacheResult(value) == [op |-> "getCachedAnalysis", value |-> value]

CacheInit ==
    /\ CoreIdle
    /\ ChatIdle
    /\ SemIdle
    /\ DedupIdle
    /\ StorageIdle
    /\ MoreIdle

\* setCachedAnalysis(url, highlights, contentHash), also while a lookup waits
SetCachedAnalysis ==
    /\ stPc \in {"idle", "read", "removing"}
    /\ \E url \in CacheUrls, input \in CacheInputs :
          localStore' = StoreSet(localStore, getCacheKey(url),
                                 CachedAnalysis(input.highlights, now, input.contentHash))
    /\ UNCHANGED <<syncStore, now, storageCall, storageResult, stPc>>
    /\ UNCHANGED exceptStorage

\* clearCachedAnalysis(url)
ClearCachedAnalysis ==
    /\ stPc \in {"idle", "read", "removing"}
    /\ \E url \in CacheUrls :
          /\ getCacheKey(url) \in DOMAIN localStore
          /\ localStore' = StoreRemove(localStore, getCacheKey(url))
    /\ UNCHANGED <<syncStore, now, storageCall, storageResult, stPc>>
    /\ UNCHANGED exceptStorage

\* time passes
Tick ==
    /\ stPc \in {"idle", "read", "removing"}
    /\ \E t \in Instants :
          /\ t > now
          /\ now' = t
    /\ UNCHANGED <<syncStore, localStore, storageCall, storageResult, stPc>>
    /\ UNCHANGED exceptStorage

\* getCachedAnalysis(url, contentHash) up to the answer of storage.local.get
GetCachedAnalysis ==
    /\ stPc = "idle"
    /\ \E url \in CacheUrls, input \in CacheInputs :
          storageCall' = [op |-> "getCachedAnalysis", url |-> url,
                          contentHash |-> input.contentHash,
                          key |-> getCacheKey(url),
                          cached |-> StoreGet(localStore, getCacheKey(url)),
                          dateNow |-> 0]
    /\ stPc' = "read"
    /\ UNCHANGED <<syncStore, localStore, now, storageResult>>
    /\ UNCHANGED exceptStorage

\* the three tests on what was read: a miss and a hit return, an expired or
\* changed entry is sent to storage.local.remove
CheckCached ==
    /\ stPc = "read"
    /\ storageCall' = [storageCall EXCEPT !.dateNow = now]
    /\ IF storageCall.cached = Undefined
       THEN storageResult' = CacheResult(Null) /\ stPc' = "returned"
       ELSE IF Expired(storageCall.cached, now)
       THEN storageResult' = storageResult /\ stPc' = "removing"
       ELSE IF storageCall.cached.contentHash # storageCall.contentHash
       THEN storageResult' = storageResult /\ stPc' = "removing"
       ELSE /\ storageResult' = CacheResult(storageCall.cached.highlights)
            /\ stPc' = "returned"
    /\ UNCHANGED <<syncStore, localStore, now>>
    /\ UNCHANGED exceptStorage

\* storage.local.remove(key) answers and getCachedAnalysis returns null
RemoveCached ==
    /\ stPc = "removing"
    /\ localStore' = StoreRemove(localStore, storageCall.key)
    /\ storageResult' = CacheResult(Null)
    /\ stPc' = "returned"
    /\ UNCHANGED <<syncStore, now, storageCall>>
    /\ UNCHANGED exceptStorage

\* the caller has the result
StorageReturn ==
    /\ stPc = "returned"
    /\ storageCall' = NoCall
    /\ storageResult' = NoCall
    /\ stPc' = "idle"
    /\ UNCHANGED <<syncStore, localStore, now>>
    /\ UNCHANGED exceptStorage

CacheNext ==
    \/ SetCachedAnalysis
    \/ ClearCachedAnalysis
    \/ Tick
    \/ GetCachedAnalysis
    \/ CheckCached
    \/ RemoveCached
    \/ StorageReturn

SpecCache == CacheInit /\ [][CacheNext]_vars

CacheReturned == stPc = "returned" /\ storageCall.op = "getCachedAnalysis"

\* the entry read was there, at most 24 hours old when tested, and of the hash asked for
CacheFresh ==
    /\ storageCall.cached # Undefined
    /\ storageCall.dateNow - storageCall.cached.timestamp <= CACHE_MAX_AGE_MS
    /\ storageCall.cached.contentHash = storageCall.contentHash

\* C18: getCachedAnalysis(url, hash) returns the stored highlights when the
\* entry of the page exists, was written at most 24 hours before and has the
\* hash asked for; in every other case it returns null, and when it found an
\* expired or changed entry the page has no entry as it returns
C18_CacheHitOnlyWhenFresh ==
    CacheReturned
    => /\ CacheFresh => storageResult = CacheResult(storageCall.cached.highlights)
       /\ ~CacheFresh => storageResult = CacheResult(Null)
       /\ (storageCall.cached # Undefined /\ ~CacheFresh)
             => storageCall.key \notin DOMAIN localStore

\* an entry of the right hash, one millisecond over 24 hours old, was removed
C18_Witness ==
    /\ CacheReturned
    /\ storageCall.cached # Undefined
    /\ storageCall.cached.contentHash = storageCall.contentHash
    /\ storageCall.dateNow - storageCall.cached.timestamp = CACHE_MAX_AGE_MS + 1
    /\ storageResult = CacheResult(Null)
    /\ storageCall.key \notin DOMAIN localStore

-----------------------------------------------------------------------------
(* The notes: saveNote, deleteNote and getNotes on chrome.storage.sync *)

MaxCreatedAt == 2

SavedNote(highlightId, url, start, end, text, note, createdAt, textAnchor) ==
    [highlightId |-> highlightId, url |-> url, start |-> start, end |-> end,
     text |-> text, note |-> note, createdAt |-> createdAt, anchor |-> textAnchor]

\* two pages of one host, the path of the second the first's path with ':b'
\* after it, and a page of another host
NoteUrls == {u \in Urls : u.search = <<>> /\ (u.host = <<"x">> \/ u.pathname = <<"/", "a">>)}

\* `h-${nextHighlightId++}`
HighlightIds == {<<"h", "-", "1">>, <<"h", "-", "2">>}

NoteInputs ==
    {SavedNote(highlightId, url, 0, 1, <<"a">>, <<"n">>, createdAt, NoAnchor) :
        highlightId \in HighlightIds, url \in NoteUrls, createdAt \in 1..MaxCreatedAt}

\* key.startsWith(prefix) && value
NoteKeys(store, url) ==
    {key \in DOMAIN store : StartsWith(key, NOTES_PREFIX \o getUrlKey(url) \o <<":">>)}

\* notes.sort((a, b) => a.createdAt - b.createdAt): the orders of the values
\* under these keys that ascend in createdAt; storage.sync.get(null) fixes no
\* order among equal times
RECURSIVE SortedNotes(_, _)
SortedNotes(store, keys) ==
    IF keys = {} THEN {<<>>}
    ELSE UNION {{<<store[key]>> \o rest : rest \in SortedNotes(store, keys \ {key})} :
                  key \in {k \in keys : \A other \in keys :
                                           store[k].createdAt <= store[other].createdAt}}

getNotes(store, url) == SortedNotes(store, NoteKeys(store, url))

NotesResult(value) == [op |-> "getNotes", value |-> value]

NotesInit ==
    /\ CoreIdle
    /\ ChatIdle
    /\ SemIdle
    /\ DedupIdle
    /\ StorageIdle
    /\ MoreIdle

\* saveNote(note)
SaveNote ==
    /\ stPc = "idle"
    /\ \E note \in NoteInputs :
          syncStore' = StoreSet(syncStore, getNoteKey(note.url, note.highlightId), note)
    /\ UNCHANGED <<localStore, now, storageCall, storageResult, stPc>>
    /\ UNCHANGED exceptStorage

\* deleteNote(url, highlightId)
DeleteNote ==
    /\ stPc = "idle"
    /\ \E url \in NoteUrls, highlightId \in HighlightIds :
          /\ getNoteKey(url, highlightId) \in DOMAIN syncStore
          /\ syncStore' = StoreRemove(syncStore, getNoteKey(url, highlightId))
    /\ UNCHANGED <<localStore, now, storageCall, storageResult, stPc>>
    /\ UNCHANGED exceptStorage

\* getNotes(url)
GetNotes ==
    /\ stPc = "idle"
    /\ \E url \in NoteUrls :
          /\ storageCall' = [op |-> "getNotes", url |-> url]
          /\ \E notes \in getNotes(syncStore, url) :
                storageResult' = NotesResult(notes)
    /\ stPc' = "returned"
    /\ UNCHANGED <<syncStore, localStore, now>>
    /\ UNCHANGED exceptStorage

NotesNext ==
    \/ SaveNote
    \/ DeleteNote
    \/ GetNotes
    \/ StorageReturn

SpecNotes == NotesInit /\ [][NotesNext]_vars

NotesReturned == stPc = "returned" /\ storageCall.op = "getNotes"

\* C19: every note getNotes(url) returns was saved under the host and
\* pathname of url
C19_NotesOfThisPage ==
    NotesReturned
    => \A n \in 1..Len(storageResult.value) :
          getUrlKey(storageResult.value[n].url) = getUrlKey(storageCall.url)

-----------------------------------------------------------------------------
(* A note on a highlight of the analysis: the highlight is processed as
   startAnalysis does and handleSaveNote saves the note *)

MaxPageLen == 120
SNIPPET_LENGTH == 100

Repeat(c, n) == [k \in 1..n |-> c]

\* pages of one chunk in one text node: a long text without a full stop, two
\* sentences, and a short page
NotePages ==
    {<<Repeat("a", MaxPageLen)>>,
     <<Repeat("a", MaxPageLen \div 2) \o <<".", " ">> \o Repeat("b", MaxPageLen \div 2) \o <<".">>>>,
     <<<<"a", ".", " ", "b", ".">>>>}

\* the offsets of a highlight in a response that parseResponse accepts
NoteOffsets ==
    {<<0, 1>>, <<0, CONTEXT_LENGTH>>, <<0, SNIPPET_LENGTH>>, <<0, SNIPPET_LENGTH + 1>>,
     <<0, MaxPageLen>>, <<0, 10 * MaxPageLen>>, <<CONTEXT_LENGTH + 1, SNIPPET_LENGTH>>,
     <<10, MaxPageLen - 5>>, <<MaxPageLen - 1, MaxPageLen>>,
     <<2 * MaxPageLen, 3 * MaxPageLen>>}

NoteTexts == {<<"n">>, <<"n", "o", "t", "e">>}

\* describeRange of content.ts: the descriptor without hints
describeRangeInPage(d, range) == [describeRange(d, range, 1) EXCEPT !.textFragment = NoHint]

\* `h-${highlightCounter++}`
HighlightId(n) == <<"h", "-", <<"0", "1", "2">>[n + 1]>>

\* the ProcessedHighlight of a highlight {start, end} of the response for the
\* page's chunk
NoteHighlight(pg, h, n) ==
    [id |-> HighlightId(n), start |-> h[1], end |-> h[2],
     text |-> Slice(pg[1], h[1], h[2]),
     anchor |-> IF offsetToRange(AnalysisDoc(pg, <<>>), ChunkOf(pg, 1), h[1], h[2]).kind = "range"
                THEN describeRangeInPage(AnalysisDoc(pg, <<>>),
                                         offsetToRange(AnalysisDoc(pg, <<>>), ChunkOf(pg, 1),
                                                       h[1], h[2]).range)
                ELSE Undefined]

\* highlight.text.slice(0, 100)
Snippet(text) == Slice(text, 0, SNIPPET_LENGTH)

SaveNoteInit ==
    /\ doc = <<>>
    /\ edits = 0
    /\ AnchorIdle
    /\ OffsetIdle
    /\ LlmIdle
    /\ page \in NotePages
    /\ overlayVisible = FALSE
    /\ overlayState = "IDLE"
    /\ currentHighlights = <<>>
    /\ currentHighlightIndex = 0
    /\ isFromCache = FALSE
    /\ nextHighlightId = 0
    /\ domMarks = <<>>
    /\ cache = NoCache
    /\ runs = <<>>
    /\ RestIdle

\* startAnalysis on one highlight of the response
ProcessHighlight ==
    /\ page # <<>>
    /\ currentHighlights = <<>>
    /\ \E h \in NoteOffsets :
          currentHighlights' = <<NoteHighlight(page, h, nextHighlightId)>>
    /\ nextHighlightId' = nextHighlightId + 1
    /\ UNCHANGED <<page, overlayVisible, overlayState, currentHighlightIndex, isFromCache,
                   domMarks, cache, runs>>
    /\ UNCHANGED <<pageVars, anchorVars, offsetVars, llmVars, restVars>>

\* handleSaveNote on the highlight, with a note typed in
HandleSaveNote ==
    /\ currentHighlights # <<>>
    /\ syncStore = <<>>
    /\ \E url \in NoteUrls, noteText \in NoteTexts :
          syncStore' = StoreSet(syncStore,
                                getNoteKey(url, currentHighlights[1].id),
                                SavedNote(currentHighlights[1].id, url,
                                          currentHighlights[1].start,
                                          currentHighlights[1].end,
                                          Snippet(currentHighlights[1].text),
                                          noteText, now, currentHighlights[1].anchor))
    /\ UNCHANGED <<localStore, now, storageCall, storageResult, stPc>>
    /\ UNCHANGED exceptStorage

SaveNoteNext ==
    \/ ProcessHighlight
    \/ HandleSaveNote

SpecSaveNote == SaveNoteInit /\ [][SaveNoteNext]_vars

\* C20: a stored note holds at most 100 characters of the highlight's text
\* and 32 characters of context on each side, and never the whole text of
\* a page longer than that
C20_OnlySnippetPersisted ==
    \A key \in DOMAIN syncStore :
        /\ Len(syncStore[key].text) <= SNIPPET_LENGTH
        /\ Len(page[1]) > SNIPPET_LENGTH => syncStore[key].text # page[1]
        /\ syncStore[key].anchor # Undefined
             => /\ Len(syncStore[key].anchor.prefix) <= CONTEXT_LENGTH
                /\ Len(syncStore[key].anchor.suffix) <= CONTEXT_LENGTH
                /\ Len(syncStore[key].anchor.exact) <= SNIPPET_LENGTH
                /\ Len(page[1]) > SNIPPET_LENGTH => syncStore[key].anchor.exact # page[1]

-----------------------------------------------------------------------------
(* expandToSentence on a chunk text and the offsets of a highlight *)

\* how far past the end of the text an offset may point
MaxPastEnd == 1

\* texts of one or two units, the empty text and a text of white space
ExpandTexts == {<<>>, <<" ", "\n">>} \cup UnitTexts(1) \cup UnitTexts(2)

ExpandInit ==
    /\ CoreIdle
    /\ ChatIdle
    /\ SemIdle
    /\ DedupIdle
    /\ StorageIdle
    /\ PanelIdle
    /\ SidebarIdle
    /\ CallIdle
    /\ expandText \in ExpandTexts
    /\ expandArgs = <<0, 0>>
    /\ expandResult = [start |-> 0, end |-> 0]
    /\ ePc = "start"

\* expandToSentence(chunkText, start, end) on offsets validateHighlight accepts
ExpandToSentence ==
    /\ ePc = "start"
    /\ \E start \in 0..Len(expandText) : \E end \in (start + 1)..(Len(expandText) + MaxPastEnd) :
          /\ expandArgs' = <<start, end>>
          /\ expandResult' = expandToSentence(expandText, start, end)
    /\ ePc' = "done"
    /\ UNCHANGED expandText
    /\ UNCHANGED <<coreVars, chatVars, semVars, dedupVars, storageVars, exceptExpand>>

ExpandNext == ExpandToSentence

SpecExpand == ExpandInit /\ [][ExpandNext]_vars

Expanded == ePc = "done"

\* the detected sentences that hold the character at start, and those that
\* hold the character before end
SentencesAtStart ==
    {st \in {detectSentences(expandText)[k] : k \in 1..Len(detectSentences(expandText))} :
        st.start <= expandArgs[1] /\ expandArgs[1] < st.end}
SentencesAtEnd ==
    {st \in {detectSentences(expandText)[k] : k \in 1..Len(detectSentences(expandText))} :
        st.start < expandArgs[2] /\ expandArgs[2] <= st.end}

\* end is bound with the white space before it removed, down to start at most
TrimmedTo(text, start, bound, end) ==
    /\ start <= end /\ end <= bound
    /\ \A i \in end..(bound - 1) : IsSpace(CharAt(text, i))
    /\ end = start \/ ~IsSpace(CharAt(text, end - 1))

\* the span covers the characters of [start, end) that are not white space
CoversText ==
    /\ expandResult.start <= expandArgs[1]
    /\ expandResult.start <= expandResult.end
    /\ \A i \in expandArgs[1]..(expandArgs[2] - 1) :
          (i < Len(expandText) /\ ~IsSpace(CharAt(expandText, i)))
          => (expandResult.start <= i /\ i < expandResult.end)

\* C25 as claimed: without a sentence the bounds come back; otherwise the start
\* is that of the sentence holding start, the end that of the sentence holding
\* end less its trailing white space, and the span covers the text of [start, end)
C25_SentenceBounds ==
    Expanded
    => IF detectSentences(expandText) = <<>>
       THEN expandResult = [start |-> expandArgs[1], end |-> expandArgs[2]]
       ELSE /\ \E st \in SentencesAtStart : expandResult.start = st.start
            /\ \E st \in SentencesAtEnd :
                  TrimmedTo(expandText, expandResult.start, st.end, expandResult.end)
            /\ CoversText

\* C25, amended: as claimed where a sentence holds the position; the start is
\* kept when no sentence holds start, and the end is that of the white space
\* before end removed when no sentence holds end
C25_SentenceOrOriginalBounds ==
    Expanded
    => IF detectSentences(expandText) = <<>>
       THEN expandResult = [start |-> expandArgs[1], end |-> expandArgs[2]]
       ELSE /\ \A st \in SentencesAtStart : expandResult.start = st.start
            /\ SentencesAtStart = {} => expandResult.start = expandArgs[1]
            /\ \A st \in SentencesAtEnd :
                  TrimmedTo(expandText, expandResult.start, st.end, expandResult.end)
            /\ SentencesAtEnd = {}
                  => TrimmedTo(expandText, expandResult.start, expandArgs[2],
                               expandResult.end)
            /\ CoversText

\* a highlight from inside one sentence into the next, with white space cut
\* from the end of the span
C25_Witness ==
    /\ Expanded
    /\ Len(detectSentences(expandText)) > 2
    /\ SentencesAtStart = {detectSentences(expandText)[1]}
    /\ SentencesAtEnd = {detectSentences(expandText)[2]}
    /\ expandResult.start < expandArgs[1]
    /\ expandArgs[2] < expandResult.end
    /\ expandResult.end < detectSentences(expandText)[2].end


-----------------------------------------------------------------------------
(* The chat panel (content.ts: openChatPanel, renderChatModal,
   updateChatModalContent, sendChatMessage, transformChatModalToAporia,
   closeChatPanel): several sessions, one modal, and the SOCRATIC_CHAT
   messages that are not answered yet. *)

MaxSends == 2
APORIA_THRESHOLD == 95

\* the ids of the highlights of the sidebar, and an id that is not among them
SidebarIds == {"h-0", "h-1"}
PanelIds == SidebarIds \cup {"h-2"}

\* what chrome.runtime.sendMessage gives: an error, a low score, a score past
\* the threshold, a rejection
PanelOutcomes ==
    {[kind |-> "http", aporiaScore |-> JsonUndefined],
     [kind |-> "json", aporiaScore |-> JsonNumber(30)],
     [kind |-> "json", aporiaScore |-> JsonNumber(98)],
     [kind |-> "throw", aporiaScore |-> JsonUndefined]}

InitialSession ==
    [aporiaScore |-> INITIAL_APORIA,
     history |-> <<ChatMessage("system", 0), ChatMessage("user", 0),
                   ChatMessage("assistant", INITIAL_APORIA)>>]

\* chatSessions after "if (!chatSessions.has(highlightId)) chatSessions.set(...)",
\* with the has() test left out
InitSessionAlways(sessions, highlightId) ==
    [sessions EXCEPT ![highlightId] = InitialSession]

\* chatSessions after "if (!chatSessions.has(highlightId)) chatSessions.set(...)"
InitSessionIfMissing(sessions, highlightId) ==
    IF sessions[highlightId] = NoSession
    THEN [sessions EXCEPT ![highlightId] = InitialSession]
    ELSE sessions

\* the modal renderChatModal creates: doSend is bound to the session's
\* highlightId, the input is enabled, the messages are the session's
NewModal(highlightId) ==
    [kind |-> "modal", highlightId |-> highlightId, disabled |-> FALSE,
     aporiaState |-> FALSE, messages |-> "history", of |-> highlightId]

\* renderChatModal(session): the modal that exists gets the session's messages
\* and score (updateChatModalContent), else a modal is created
renderChatModal(modal, highlightId) ==
    IF modal # NoModal
    THEN [modal EXCEPT !.messages = "history", !.of = highlightId]
    ELSE NewModal(highlightId)

\* transformChatModalToAporia()
transformChatModalToAporia(modal) ==
    IF modal = NoModal THEN modal
    ELSE [modal EXCEPT !.aporiaState = TRUE, !.messages = "congratulations"]

PanelEvent(op, highlightId) == [op |-> op, highlightId |-> highlightId]

PanelInit ==
    /\ CoreIdle
    /\ ChatIdle
    /\ SemIdle
    /\ DedupIdle
    /\ StorageIdle
    /\ ExpandIdle
    /\ SidebarIdle
    /\ CallIdle
    /\ chatSessions = [id \in PanelIds |-> NoSession]
    /\ activeChatHighlightId = ""
    /\ chatModalElement = NoModal
    /\ chatPending = [id \in PanelIds |-> 0]
    /\ chatEvent = NoEvent

PanelFrame == UNCHANGED <<coreVars, chatVars, semVars, dedupVars, storageVars, exceptPanel>>

\* openChatPanel(highlightId), from a chat button of the sidebar
OpenChatPanelFor(highlightId) ==
    /\ chatEvent' = PanelEvent("open", highlightId)
    /\ IF highlightId \notin SidebarIds
       THEN UNCHANGED <<chatSessions, activeChatHighlightId, chatModalElement>>
       ELSE /\ chatSessions' = InitSessionIfMissing(chatSessions, highlightId)
            /\ activeChatHighlightId' = highlightId
            /\ chatModalElement' = renderChatModal(chatModalElement, highlightId)
    /\ UNCHANGED chatPending
    /\ PanelFrame

OpenPanel == \E highlightId \in PanelIds : OpenChatPanelFor(highlightId)

\* closeChatPanel(), from the close button, the backdrop or 'Continue Reading'
CloseChatPanel ==
    /\ chatModalElement # NoModal
    /\ chatEvent' = PanelEvent("close", "")
    /\ activeChatHighlightId' = ""
    /\ chatModalElement' = NoModal
    /\ UNCHANGED <<chatSessions, chatPending>>
    /\ PanelFrame

\* doSend of the modal, and sendChatMessage up to its await: the input area is
\* visible and enabled
SendFromModal ==
    /\ chatModalElement # NoModal
    /\ ~chatModalElement.disabled
    /\ ~chatModalElement.aporiaState
    /\ LET highlightId == chatModalElement.highlightId IN
          /\ chatSessions[highlightId] # NoSession
          /\ Len(SelectSeq(chatSessions[highlightId].history,
                           LAMBDA msg : msg.role = "user")) <= MaxSends
          /\ chatEvent' = PanelEvent("send", highlightId)
          /\ chatSessions' = [chatSessions EXCEPT ![highlightId].history =
                                 Append(@, ChatMessage("user", 0))]
          /\ chatModalElement' =
                [renderChatModal(chatModalElement, highlightId) EXCEPT !.disabled = TRUE]
          /\ chatPending' = [chatPending EXCEPT ![highlightId] = @ + 1]
    /\ UNCHANGED activeChatHighlightId
    /\ PanelFrame

\* a SOCRATIC_CHAT message of the session is answered, or fails, and its
\* sendChatMessage runs to its end
PanelAnswerFor(highlightId, outcome) ==
    /\ chatPending[highlightId] > 0
    /\ LET resp == MessageResponse(outcome)
           session == chatSessions[highlightId]
           newScore == IF resp.aporiaScore.type = "undefined" THEN 0
                       ELSE resp.aporiaScore.val
           score == IF resp.kind = "result"
                    THEN NewScore(session.aporiaScore, newScore)
                    ELSE session.aporiaScore
           rendered == [renderChatModal(chatModalElement, highlightId)
                           EXCEPT !.disabled = FALSE]
       IN /\ chatSessions' = [chatSessions EXCEPT ![highlightId] =
                                 [aporiaScore |-> score,
                                  history |-> Append(session.history,
                                                     ChatMessage("assistant", score))]]
          /\ chatModalElement' = IF score >= APORIA_THRESHOLD
                                 THEN transformChatModalToAporia(rendered)
                                 ELSE rendered
    /\ chatPending' = [chatPending EXCEPT ![highlightId] = @ - 1]
    /\ chatEvent' = PanelEvent("answer", highlightId)
    /\ UNCHANGED activeChatHighlightId
    /\ PanelFrame

PanelAnswer ==
    \E highlightId \in PanelIds : \E outcome \in PanelOutcomes :
        PanelAnswerFor(highlightId, outcome)

PanelNext == OpenPanel \/ CloseChatPanel \/ SendFromModal \/ PanelAnswer

SpecPanel == PanelInit /\ [][PanelNext]_vars


-----------------------------------------------------------------------------
(* Properties of the chat panel *)

\* C22: a chat session is created only by the first openChatPanel for its
\* highlight, with the score 0.1 and the three messages system, user,
\* assistant; every later openChatPanel, for this highlight or another, after
\* any sends, answers and closes, leaves its history and score as they are
C22_SessionCreatedOnce ==
    [][\A id \in PanelIds :
          /\ (chatSessions[id] = NoSession /\ chatSessions'[id] # NoSession)
                => (OpenChatPanelFor(id) /\ chatSessions'[id] = InitialSession)
          /\ (chatSessions[id] = NoSession /\ id \in SidebarIds /\ OpenChatPanelFor(id))
                => chatSessions'[id] = InitialSession
          /\ (chatSessions[id] # NoSession /\ OpenPanel)
                => chatSessions'[id] = chatSessions[id]]_vars

\* the panel of highlight 0 was opened again after two turns and a close
C22_Witness ==
    /\ chatEvent = PanelEvent("open", "h-0")
    /\ Len(chatSessions["h-0"].history) = 7
    /\ chatSessions["h-0"].aporiaScore = 98
    /\ chatModalElement = NewModal("h-0")

AporiaShown ==
    chatModalElement # NoModal /\ chatModalElement.messages = "congratulations"

\* C23: when a chat turn has completed, the congratulations view is shown if
\* and only if the score of the turn's session is at least 0.95; and the view
\* is never shown in the panel of a session whose score is below 0.95
C23_AporiaIffThreshold ==
    /\ chatEvent.op = "answer"
          => (AporiaShown <=>
                 chatSessions[chatEvent.highlightId].aporiaScore >= APORIA_THRESHOLD)
    /\ (AporiaShown /\ activeChatHighlightId = chatModalElement.highlightId)
          => chatSessions[activeChatHighlightId].aporiaScore >= APORIA_THRESHOLD

\* C27: in every session the messages after the first alternate user,
\* assistant, user, ...; and no session has more than one request in flight
C27_HistoryAlternates ==
    \A id \in PanelIds :
        /\ \A k \in 2..Len(chatSessions[id].history) :
              chatSessions[id].history[k].role = IF k % 2 = 0 THEN "user" ELSE "assistant"
        /\ chatPending[id] <= 1


-----------------------------------------------------------------------------
(* The list of the sidebar (content.ts: selectHighlight, navigateHighlight,
   deleteHighlight, handleAddUserHighlight, updateOverlayState) with one
   analysis at a time: the overlay is toggled and the page re-analyzed only
   when no startAnalysis is awaiting an answer. *)

\* the selections of the user in a chunk's text, as offsets
UserSpans == {<<0, 2>>, <<3, 5>>, <<0, 3>>}

\* the pages of the sidebar's specification
SidebarPages == {<<TextTwoSentences>>, <<TextTwoSentences, TextTwoSentences>>}

\* selectHighlight(index): the new currentHighlightIndex
selectHighlight(highlights, current, index) ==
    IF index < 0 \/ index >= Len(highlights) THEN current ELSE index

\* navigateHighlight(direction): the new currentHighlightIndex
navigateHighlight(highlights, current, direction) ==
    LET newIndex == current + direction
        wrapped == IF newIndex < 0 THEN Len(highlights) - 1 ELSE newIndex
    IN selectHighlight(highlights, current,
                       IF wrapped >= Len(highlights) THEN 0 ELSE wrapped)

\* updateOverlayState(): the currentHighlights it leaves
updateOverlayState(state, highlights) ==
    IF state = "DISPLAYING" THEN deduplicateByText(highlights) ELSE highlights

\* deleteHighlight without "Adjust index"
AdjustIndexNever(current, length) == current

\* if (currentHighlightIndex >= currentHighlights.length) ... Math.max(0, length - 1)
AdjustIndex(current, length) ==
    IF current >= length THEN Max(0, length - 1) ELSE current

\* splice(index, 1), index counted from 0
Splice(seq, index) == SubSeq(seq, 1, index) \o SubSeq(seq, index + 2, Len(seq))

SidebarState(highlights, index, marks, state, cached) ==
    [highlights |-> highlights, index |-> index, marks |-> marks, state |-> state,
     cache |-> cached]

\* deleteHighlight(index) on the state st
deleteHighlight(st, index) ==
    IF index < 0 \/ index >= Len(st.highlights) THEN st
    ELSE LET id == st.highlights[index + 1].id
             spliced == Splice(st.highlights, index)
             state == IF Len(spliced) = 0 THEN "DISPLAYING" ELSE st.state
         IN SidebarState(updateOverlayState(state, spliced),
                         AdjustIndex(st.index, Len(spliced)),
                         SelectSeq(st.marks, LAMBDA mark : mark.id # id),
                         state, NoCache)

Sidebar ==
    SidebarState(currentHighlights, currentHighlightIndex, domMarks, overlayState, cache)

SidebarInit ==
    /\ AnalysisInit
    /\ page \in SidebarPages

SidebarFrame ==
    UNCHANGED <<pageVars, anchorVars, offsetVars, llmVars, chatVars, semVars, dedupVars,
                storageVars, expandVars, panelVars, callVars>>

\* no startAnalysis is awaiting an answer
Quiet == \A r \in 1..Len(runs) : runs[r].pc = "done"

\* the list, its buttons and the navigation are rendered
Rendered == overlayVisible /\ overlayState = "DISPLAYING" /\ Len(currentHighlights) > 0

\* a click on the number of a list item
SelectHighlight ==
    /\ Rendered
    /\ \E index \in 0..(Len(currentHighlights) - 1) :
          currentHighlightIndex' = selectHighlight(currentHighlights, currentHighlightIndex, index)
    /\ UNCHANGED <<page, overlayVisible, overlayState, currentHighlights, isFromCache,
                   nextHighlightId, domMarks, cache, runs, userPending>>
    /\ SidebarFrame

\* a click on the previous or next button
NavigateHighlight ==
    /\ Rendered
    /\ \E direction \in {-1, 1} :
          currentHighlightIndex' =
              navigateHighlight(currentHighlights, currentHighlightIndex, direction)
    /\ UNCHANGED <<page, overlayVisible, overlayState, currentHighlights, isFromCache,
                   nextHighlightId, domMarks, cache, runs, userPending>>
    /\ SidebarFrame

\* a click on the delete button of a list item
DeleteHighlight ==
    /\ Rendered
    /\ \E index \in 0..(Len(currentHighlights) - 1) :
          LET after == deleteHighlight(Sidebar, index) IN
          /\ currentHighlights' = after.highlights
          /\ currentHighlightIndex' = after.index
          /\ domMarks' = after.marks
          /\ overlayState' = after.state
          /\ cache' = after.cache
    /\ UNCHANGED <<page, overlayVisible, isFromCache, nextHighlightId, runs, userPending>>
    /\ SidebarFrame

\* handleAddUserHighlight() up to its await, on a selection of chunk k that
\* handleSelectionChange accepted
AddUserHighlight ==
    /\ overlayVisible /\ overlayState = "DISPLAYING"
    /\ nextHighlightId < MaxIds
    /\ \E k \in 1..Len(page) : \E span \in UserSpans :
          LET text == Trim(Slice(page[k], span[1], span[2]))
              provisional ==
                  [ProcessedHighlight(nextHighlightId, 0, Len(text), text, FALSE,
                                      span[1], span[2], -1, 0) EXCEPT !.questions = <<>>]
          IN /\ span[2] <= Len(page[k])
             /\ domMarks' = Append(domMarks,
                                   [id |-> nextHighlightId, chunkIndex |-> k,
                                    start |-> span[1], end |-> span[2], run |-> 0])
             /\ currentHighlights' =
                   updateOverlayState(overlayState, Append(currentHighlights, provisional))
    /\ nextHighlightId' = nextHighlightId + 1
    /\ userPending' = userPending \cup {nextHighlightId}
    /\ UNCHANGED <<page, overlayVisible, overlayState, currentHighlightIndex, isFromCache,
                   cache, runs>>
    /\ SidebarFrame

\* GENERATE_QUESTIONS is answered, or fails: the provisional highlight gets its
\* question and the list is rendered again
UserQuestions ==
    /\ \E id \in userPending :
          /\ userPending' = userPending \ {id}
          /\ currentHighlights' =
                updateOverlayState(overlayState,
                    [j \in 1..Len(currentHighlights) |->
                        IF currentHighlights[j].id = id /\ currentHighlights[j].chunkIndex = -1
                        THEN [currentHighlights[j] EXCEPT !.questions = <<id>>]
                        ELSE currentHighlights[j]])
    /\ UNCHANGED <<page, overlayVisible, overlayState, currentHighlightIndex, isFromCache,
                   nextHighlightId, domMarks, cache, runs>>
    /\ SidebarFrame

\* the overlay is toggled, or the page re-analyzed, between two analyses
QuietToggle == Quiet /\ (HideOverlay \/ ShowOverlay)
QuietReanalyze == Quiet /\ ClickReanalyze

SidebarNext ==
    \/ QuietToggle \/ QuietReanalyze \/ CacheCleared
    \/ CacheAnswer \/ ChunkAnswer \/ CacheSaved
    \/ SelectHighlight \/ NavigateHighlight \/ DeleteHighlight
    \/ AddUserHighlight \/ UserQuestions

SpecSidebar == SidebarInit /\ [][SidebarNext]_vars

-----------------------------------------------------------------------------
(* Properties of the sidebar's list *)

IndexInRange ==
    IF Len(currentHighlights) = 0 THEN currentHighlightIndex = 0
    ELSE 0 <= currentHighlightIndex /\ currentHighlightIndex < Len(currentHighlights)

C26_MarkersListed ==
    overlayState = "DISPLAYING" =>
        \A j \in 1..Len(domMarks) :
            \E n \in 1..Len(currentHighlights) : currentHighlights[n].id = domMarks[j].id


-----------------------------------------------------------------------------
(* callLLM (shared/llm.ts): the validation of the Config, the two attempts
   and what each failure does. *)

MAX_ATTEMPTS == 2

Providers == {"openai", "gemini", "ollama", "other"}
Configs == [provider : Providers, apiKey : BOOLEAN]

Statuses == {400, 401, 403, 404, 429, 500, 503}

\* the bodies of a 200 response: no content, no highlight, one highlight
CallBodies ==
    {Response("empty", "none", NotAnArray),
     Response("json", "object", JsonArray(<<>>)),
     Response("json", "object", JsonArray(<<JsonObject(JsonNumber(0), JsonNumber(1))>>))}

\* what one fetch meets: a status that is not ok, a 200 with a body, a
\* network failure (the TypeError of fetch), or any other exception (the body
\* is not JSON, say)
FetchOutcomes ==
    {[kind |-> "status", status |-> st, body |-> Response("empty", "none", NotAnArray)] :
        st \in Statuses}
    \cup {[kind |-> "ok", status |-> 200, body |-> b] : b \in CallBodies}
    \cup {[kind |-> k, status |-> 0, body |-> Response("empty", "none", NotAnArray)] :
            k \in {"network", "exception"}}

CallError(name, retryable, message) ==
    [kind |-> "throw", name |-> name, retryable |-> retryable, message |-> message]

\* what the try block of an attempt returns or throws
AttemptResult(config, outcome) ==
    IF outcome.kind = "network" THEN CallError("TypeError", FALSE, "Failed to fetch")
    ELSE IF outcome.kind = "exception" THEN CallError("SyntaxError", FALSE, "Unexpected token")
    ELSE IF outcome.kind = "status"
    THEN IF outcome.status = 429 THEN CallError("LLMError", TRUE, "Rate limited")
         ELSE IF outcome.status \in {401, 403}
         THEN CallError("LLMError", FALSE,
                        IF config.provider = "ollama" THEN "CORS blocked"
                        ELSE "Authentication failed")
         ELSE IF outcome.status = 404
         THEN CallError("LLMError", FALSE,
                        IF config.provider = "ollama" THEN "Model not found"
                        ELSE "API error (404)")
         ELSE CallError("LLMError", outcome.status >= 500, "API error")
    ELSE LET parsed == parseResponse(outcome.body) IN
         IF parsed.kind = "LLMError" THEN CallError("LLMError", FALSE, parsed.message)
         ELSE [kind |-> "return", highlights |-> parsed.highlights]

\* e instanceof TypeError && e.message.includes('fetch')
IsNetworkError(e) == e.name = "TypeError" /\ e.message = "Failed to fetch"

\* every error is retried
ShouldRetryAlways(e) == TRUE

\* the catch block reaches "Retry on other errors"
ShouldRetry(e) ==
    /\ ~(e.name = "LLMError" /\ ~e.retryable)
    /\ e.name # "ConfigError"
    /\ ~IsNetworkError(e)

\* what the catch block throws for an error it does not retry
Rethrown(config, e) ==
    IF IsNetworkError(e) /\ ~(e.name = "LLMError" /\ ~e.retryable) /\ e.name # "ConfigError"
    THEN CallError("LLMError", FALSE,
                   IF config.provider = "ollama" THEN "Cannot connect to Ollama"
                   ELSE "Network error")
    ELSE e

CallInit ==
    /\ CoreIdle
    /\ ChatIdle
    /\ SemIdle
    /\ DedupIdle
    /\ StorageIdle
    /\ ExpandIdle
    /\ PanelIdle
    /\ SidebarIdle
    /\ callConfig \in Configs
    /\ callAttempts = <<>>
    /\ callResult = NoCallResult
    /\ cPc = "start"

CallFrame == UNCHANGED <<coreVars, chatVars, semVars, dedupVars, storageVars, exceptCall>>

\* callLLM up to its first fetch
CallLLM ==
    /\ cPc = "start"
    /\ IF callConfig.provider # "ollama" /\ ~callConfig.apiKey
       THEN /\ callResult' = CallError("ConfigError", FALSE, "API key required")
            /\ cPc' = "done"
       ELSE IF callConfig.provider \notin {"openai", "gemini", "ollama"}
       THEN /\ callResult' = CallError("ConfigError", FALSE, "Unknown provider")
            /\ cPc' = "done"
       ELSE /\ cPc' = "fetch"
            /\ UNCHANGED callResult
    /\ UNCHANGED <<callConfig, callAttempts>>
    /\ CallFrame

\* the fetch of an attempt ends, and the attempt with it
Fetch ==
    /\ cPc = "fetch"
    /\ \E outcome \in FetchOutcomes :
          LET result == AttemptResult(callConfig, outcome) IN
          /\ callAttempts' = Append(callAttempts, outcome)
          /\ IF result.kind = "return"
             THEN callResult' = result /\ cPc' = "done"
             ELSE IF ~ShouldRetry(result)
             THEN callResult' = Rethrown(callConfig, result) /\ cPc' = "done"
             ELSE IF Len(callAttempts) + 1 < MAX_ATTEMPTS
             THEN cPc' = "wait" /\ UNCHANGED callResult
             ELSE callResult' = result /\ cPc' = "done"
    /\ UNCHANGED callConfig
    /\ CallFrame

\* the second of delay is over
RetryDelay ==
    /\ cPc = "wait"
    /\ cPc' = "fetch"
    /\ UNCHANGED <<callConfig, callAttempts, callResult>>
    /\ CallFrame

CallNext == CallLLM \/ Fetch \/ RetryDelay

SpecCall == CallInit /\ [][CallNext]_vars

-----------------------------------------------------------------------------
(* Properties of callLLM *)

Called == cPc = "done"

\* HTTP 429 or 5xx, or an exception that is neither an LLMError nor a network
\* failure
RetryableOutcome(outcome) ==
    \/ outcome.kind = "status" /\ (outcome.status = 429 \/ outcome.status >= 500)
    \/ outcome.kind = "exception"

Failed(outcome) == AttemptResult(callConfig, outcome).kind = "throw"

\* at most two requests; a second one only after a retryable first failure; a
\* first failure that is not retryable is thrown after one request; a second
\* failure is thrown
RetryRules ==
    /\ Len(callAttempts) <= 2
    /\ Len(callAttempts) = 2 => RetryableOutcome(callAttempts[1])
    /\ (Len(callAttempts) >= 1 /\ Failed(callAttempts[1])
          /\ ~RetryableOutcome(callAttempts[1]))
         => /\ Len(callAttempts) = 1
            /\ callResult = Rethrown(callConfig, AttemptResult(callConfig, callAttempts[1]))
    /\ (Len(callAttempts) = 2 /\ Failed(callAttempts[2]))
         => callResult = Rethrown(callConfig, AttemptResult(callConfig, callAttempts[2]))
    /\ (Len(callAttempts) >= 1 /\ ~Failed(callAttempts[Len(callAttempts)]))
         => callResult.kind = "return"

\* C29: callLLM issues at most two requests, the second only after a first
\* attempt that failed with HTTP 429 or 5xx or an unexpected exception; a
\* non-retryable LLMError, a network failure or a ConfigError is thrown after
\* exactly one attempt, and the error of a failed second attempt is thrown
C29_RetryOnce ==
    Called =>
        /\ RetryRules
        /\ (callResult.kind = "throw" /\ callResult.name = "ConfigError")
              => Len(callAttempts) = 1

\* C29 as amended: the same, but a ConfigError is thrown before any request
C29_RetryOnceConfigFirst ==
    Called =>
        /\ RetryRules
        /\ (callResult.kind = "throw" /\ callResult.name = "ConfigError")
              <=> Len(callAttempts) = 0

\* a 503, then a 429: the second error is thrown after two requests
C29_Witness ==
    /\ Called
    /\ Len(callAttempts) = 2
    /\ callAttempts[1].status = 503
    /\ callAttempts[2].status = 429
    /\ callResult = CallError("LLMError", TRUE, "Rate limited")


-----------------------------------------------------------------------------
(* startAnalysis when every message is answered: the storage calls and the
   ANALYZE_CHUNK messages a run awaits resolve or reject in the end. *)

\* no text, one chunk, two chunks
FairPages == {<<>>, <<TextTwoSentences>>, <<TextTwoSentences, TextTwoSentences>>}

FairInit ==
    /\ AnalysisInit
    /\ page \in FairPages

\* one analysis at a time
FairNext ==
    \/ QuietToggle \/ QuietReanalyze \/ CacheCleared
    \/ CacheAnswer \/ ChunkAnswer \/ CacheSaved

SpecAnalysisFair ==
    /\ FairInit
    /\ [][FairNext]_vars
    /\ WF_vars(CacheCleared)
    /\ WF_vars(CacheAnswer)
    /\ WF_vars(ChunkAnswer)
    /\ WF_vars(CacheSaved)

Busy == {"EXTRACTING", "ANALYZING"}

\* run r ends in this step
Ends(r) ==
    /\ r <= Len(runs')
    /\ runs'[r].pc = "done"
    /\ r > Len(runs) \/ runs[r].pc # "done"

\* run r awaits the answer for a chunk that is not the last one, and goes on
Advances(r) ==
    /\ r <= Len(runs)
    /\ runs[r].pc = "awaitChunk"
    /\ runs[r].i < Len(page)
    /\ runs'[r].pc # runs[r].pc \/ runs'[r].i # runs[r].i

\* C28: every startAnalysis run ends, and the overlay leaves EXTRACTING and
\* ANALYZING; a run ends with the overlay in DISPLAYING or ERROR, in ERROR only
\* when the page has no text or when it has exactly one chunk and the answer
\* for that chunk brought no highlight; and on a page of several chunks the
\* answer for a chunk, failed or not, is followed by the request for the next
C28_RunsEnd ==
    /\ \A r \in 1..MaxRuns : (Len(runs) >= r) ~> (Len(runs) >= r /\ runs[r].pc = "done")
    /\ (overlayState \in Busy) ~> (overlayState \notin Busy)
    /\ [][\A r \in 1..MaxRuns :
             /\ Ends(r) =>
                  /\ overlayState' \in {"DISPLAYING", "ERROR"}
                  /\ overlayState' = "ERROR" =>
                        \/ page = <<>>
                        \/ /\ Len(page) = 1
                           /\ r <= Len(runs) /\ runs[r].pc = "awaitChunk"
                           /\ nextHighlightId' = nextHighlightId
                  /\ Len(page) > 0 /\ overlayState' = "DISPLAYING" =>
                        r <= Len(runs) /\ (runs[r].i = Len(page) \/ runs[r].pc = "awaitCache")
             /\ Advances(r) =>
                  runs'[r].pc = "awaitChunk" /\ runs'[r].i = runs[r].i + 1]_vars

\* a run on a page of two chunks ended in DISPLAYING with the highlights of
\* the second chunk only
C28_Witness ==
    /\ Len(page) = 2
    /\ Len(runs) = 1 /\ runs[1].pc = "done" /\ runs[1].i = 2
    /\ overlayState = "DISPLAYING"
    /\ Len(currentHighlights) = 1
    /\ currentHighlights[1].chunkIndex = 2
    /\ Len(cache) = 1

=============================================================================
